---- MODULE Spec2Model ----
(***************************************************************************)
(* Colour-space conversions and gradient loops of the LED scripts.         *)
(*                                                                         *)
(* Python floats are held as integers in units of 1/U (six decimals).      *)
(* Every product and quotient is rounded to the nearest unit, and is       *)
(* computed limb by limb so that no intermediate exceeds 31 bits.          *)
(* Coefficients of the source are written in the same unit, rounded to six *)
(* decimals (0.4124564 is 412456).  A Python int n is the plain integer n. *)
(***************************************************************************)
EXTENDS Integers, Sequences, FiniteSets, TLC

VARIABLES fn,       \* the function or routine that was called
          args,     \* its arguments
          status,   \* "called", then intermediate positions, "returned" or "raised"
          mid,      \* values the routine holds between two steps
          ret,      \* the value returned (<<>> while there is none)
          i,        \* loop index of a gradient routine
          emitted   \* the colours a gradient routine has sent to the LED so far

vars == <<fn, args, status, mid, ret, i, emitted>>

\* ------------------------------------------------------------------ bounds

\* 8-bit channels are sampled at 255*k/MaxLevel, k = 0..MaxLevel.
MaxLevel == 4

\* Lightness is sampled at k/2 and X, Y, Z at 50*k, k = -1..MaxK: the samples
\* reach below and above the gamut.
MaxK == 3

\* The gradient routines are called with 0..MaxSteps steps.
MaxSteps == 4

\* The joystick reading behind a hue is sampled at 65535*k/MaxHue, k = 0..MaxHue.
MaxHue == 12

\* A terrain feature of the landscape is MaxTicks ticks wide (150 to 800 in the
\* source), a valley lasts MaxTicks ticks, and a run is followed for 3 * MaxTicks.
MaxTicks == 4

\* ------------------------------------------------------- float arithmetic

U == 1000 * 1000

Abs(x) == IF x < 0 THEN -x ELSE x

Max(a, b) == IF a >= b THEN a ELSE b

Min(a, b) == IF a <= b THEN a ELSE b

\* a * b of two non-negative floats.
MulU(a, b) ==
    LET ah == a \div 1000
        al == a % 1000
        bh == b \div 1000
        bl == b % 1000
        m  == ah * bl + al * bh
    IN  ah * bh + m \div 1000 + ((m % 1000) * 1000 + al * bl + 500000) \div 1000000

\* a * b
Mul(a, b) == IF (a < 0) # (b < 0) THEN -MulU(Abs(a), Abs(b)) ELSE MulU(Abs(a), Abs(b))

RECURSIVE Frac(_, _, _)
\* the k decimals of r / b (0 <= r < b), the last one rounded
Frac(r, b, k) ==
    IF k = 0 THEN (IF 2 * r >= b THEN 1 ELSE 0)
    ELSE ((r * 10) \div b) * (10 ^ (k - 1)) + Frac((r * 10) % b, b, k - 1)

\* a / b of two floats, b # 0
Div(a, b) ==
    LET q == (Abs(a) \div Abs(b)) * U + Frac(Abs(a) % Abs(b), Abs(b), 6)
    IN  IF (a < 0) # (b < 0) THEN -q ELSE q

\* x / n for a float x and a whole number n > 0 (x / 255.0, x / 100.0, ...)
DivN(x, n) == IF x >= 0 THEN (x + n \div 2) \div n ELSE -((-x + n \div 2) \div n)

\* int(x): truncation toward zero
PyInt(x) == IF x >= 0 THEN x \div U ELSE -((-x) \div U)

\* int(x * n) for a float x and a whole number n > 0; the product itself may
\* exceed 31 bits, so the whole and the fractional part of x are scaled apart
IntTimes(x, n) ==
    LET a == Abs(x)
        q == (a \div U) * n + ((a % U) * n) \div U
    IN  IF x < 0 THEN -q ELSE q

RECURSIVE PowK(_, _)
\* y ** k for a whole number k >= 1
PowK(y, k) == IF k = 1 THEN y ELSE Mul(PowK(y, k - 1), y)

RECURSIVE RootHi(_, _, _, _)
\* the largest y in lo..hi-1 with y**k <= x, given lo**k <= x < hi**k
RootHi(x, k, lo, hi) ==
    IF hi - lo <= 1 THEN lo
    ELSE LET m == (lo + hi) \div 2
         IN  IF PowK(m, k) <= x THEN RootHi(x, k, m, hi) ELSE RootHi(x, k, lo, m)

RECURSIVE RootLo(_, _, _, _)
\* the smallest y in lo+1..hi with y**k >= x, given lo**k < x <= hi**k
RootLo(x, k, lo, hi) ==
    IF hi - lo <= 1 THEN hi
    ELSE LET m == (lo + hi) \div 2
         IN  IF PowK(m, k) >= x THEN RootLo(x, k, lo, m) ELSE RootLo(x, k, m, hi)

\* an upper end for the search of a k-th root: RootTop(k)**k still fits 31 bits
RootTop(k) == IF k = 2 THEN 46 * U ELSE IF k = 3 THEN 12 * U ELSE 4 * U

\* x ** (1/k) for 0 <= x < RootTop(k)**k: the middle of the y whose k-th power
\* rounds to x
Root(x, k) ==
    IF x <= 0 THEN 0
    ELSE (RootLo(x, k, 0, RootTop(k)) + RootHi(x, k, 0, RootTop(k))) \div 2

\* u ** 2.4 = u**2 * (u**(1/5))**2, for u >= 0
Pow24(u) == LET r == Root(u, 5) IN Mul(Mul(u, u), Mul(r, r))

\* c ** (1.0/2.4) = z * z**(1/4) with z = c**(1/3), for c >= 0
PowInv24(c) == LET z == Root(c, 3) IN Mul(z, Root(Root(z, 2), 2))

\* sin(x) for -pi/2 <= x <= pi/2, by its series up to x**11
SinSeries(x) ==
    LET x2  == Mul(x, x)
        t3  == DivN(Mul(x, x2), 6)
        t5  == DivN(Mul(t3, x2), 20)
        t7  == DivN(Mul(t5, x2), 42)
        t9  == DivN(Mul(t7, x2), 72)
        t11 == DivN(Mul(t9, x2), 110)
    IN  x - t3 + t5 - t7 + t9 - t11

\* math.sin(x), x in radians
Sin(x) ==
    LET y == x % 6283185
    IN  IF y <= 1570796 THEN SinSeries(y)
        ELSE IF y <= 4712389 THEN SinSeries(3141593 - y)
        ELSE SinSeries(y - 6283185)

\* math.cos(x), x in radians
Cos(x) == Sin(x + 1570796)

\* math.radians(h)
Radians(h) == DivN(Mul(h, 3141593), 180)

\* ------------------------------------------------------------- oklab2.py

\* linear_from_srgb(c) inside rgb_to_oklab
oklab2_linear_from_srgb(c) ==
    LET c_norm == DivN(c * U, 255)
    IN  IF c_norm <= 40450 THEN Div(c_norm, 12920000)
        ELSE Pow24(Div(c_norm + 55000, 1055000))

\* prime_from_linear(x) inside rgb_to_oklab
oklab2_prime_from_linear(x) ==
    IF x > 3131 THEN Root(x, 3) ELSE Mul(x, 7787000) + DivN(16 * U, 116)

\* rgb_to_oklab(r, g, b) -> <<L, a, b>>
rgb_to_oklab(r, g, b) ==
    LET r_linear == oklab2_linear_from_srgb(r)
        g_linear == oklab2_linear_from_srgb(g)
        b_linear == oklab2_linear_from_srgb(b)
        l == Mul(412166, r_linear) + Mul(536333, g_linear) + Mul(51502, b_linear)
        m == Mul(211859, r_linear) + Mul(680719, g_linear) + Mul(107422, b_linear)
        s == Mul(88309, r_linear) + Mul(281847, g_linear) + Mul(629843, b_linear)
        l_prime == oklab2_prime_from_linear(l)
        m_prime == oklab2_prime_from_linear(m)
        s_prime == oklab2_prime_from_linear(s)
    IN  << Mul(210454, l_prime) + Mul(793618, m_prime) - Mul(4072, s_prime),
           Mul(1977998, l_prime) - Mul(2428592, m_prime) + Mul(450594, s_prime),
           Mul(25904, l_prime) + Mul(782772, m_prime) - Mul(808676, s_prime) >>

\* linear_from_prime(x) inside oklab_to_rgb
linear_from_prime(x) == IF x > 0 THEN PowK(x, 3) ELSE 0

\* srgb_from_linear(c) inside oklab_to_rgb: clamps, then encodes
srgb_from_linear(c0) ==
    LET c == Max(0, Min(U, c0))
    IN  IF c > 3131 THEN Mul(1055000, PowInv24(c)) - 55000 ELSE Mul(c, 12920000)

\* oklab_to_rgb(L, a, b) -> <<r, g, b>>
oklab_to_rgb(L, a, b) ==
    LET l_prime == L + Mul(396338, a) + Mul(215804, b)
        m_prime == L - Mul(105561, a) - Mul(63854, b)
        s_prime == L - Mul(89484, a) - Mul(1291486, b)
        l == linear_from_prime(l_prime)
        m == linear_from_prime(m_prime)
        s == linear_from_prime(s_prime)
        r_linear == Mul(4076742, l) - Mul(3307712, m) + Mul(230970, s)
        g_linear == Mul(2609757, m) - Mul(1268438, l) - Mul(341319, s)
        b_linear == Mul(1707615, s) - Mul(4196, l) - Mul(703419, m)
    IN  << IntTimes(srgb_from_linear(r_linear), 255),
           IntTimes(srgb_from_linear(g_linear), 255),
           IntTimes(srgb_from_linear(b_linear), 255) >>

\* -------------------------------------------------------------- oklab.py

\* linear_from_prime(x) inside oklab.py's oklab_to_rgb
oklab_linear_from_prime(x) == IF x > 0 THEN PowK(x, 3) ELSE 0

\* Steps 1-3 of oklab.py's oklab_to_rgb: Oklab -> linear RGB
oklab_to_linear(L, a, b) ==
    LET l_prime == L + Mul(396338, a) + Mul(215804, b)
        m_prime == L - Mul(105561, a) - Mul(63854, b)
        s_prime == L - Mul(89484, a) - Mul(1291486, b)
        l == oklab_linear_from_prime(l_prime)
        m == oklab_linear_from_prime(m_prime)
        s == oklab_linear_from_prime(s_prime)
    IN  << Mul(4076742, l) - Mul(3307712, m) + Mul(230970, s),
           Mul(2609757, m) - Mul(1268438, l) - Mul(341319, s),
           Mul(1707615, s) - Mul(4196, l) - Mul(703419, m) >>

\* the clamp of srgb_from_linear: c = max(0, min(1, c))
oklab_clamp(c) == Max(0, Min(U, c))

\* srgb_from_linear(c) inside oklab.py's oklab_to_rgb
oklab_srgb_from_linear(c0) ==
    LET c == oklab_clamp(c0)
    IN  IF c > 3131 THEN Mul(1055000, PowInv24(c)) - 55000 ELSE Mul(c, 12920000)

\* oklab.py's oklab_to_rgb(L, a, b) -> <<r, g, b>>
oklab_oklab_to_rgb(L, a, b) ==
    LET lin == oklab_to_linear(L, a, b)
    IN  << IntTimes(oklab_srgb_from_linear(lin[1]), 255),
           IntTimes(oklab_srgb_from_linear(lin[2]), 255),
           IntTimes(oklab_srgb_from_linear(lin[3]), 255) >>

\* --------------------------------------------------------- picoCIELAB.py

\* the gamma expansion inside rgb_to_xyz, of a channel already divided by 255
cielab_expand(c) ==
    IF c > 40450 THEN Pow24(Div(c + 55000, 1055000)) ELSE Div(c, 12920000)

\* rgb_to_xyz(r, g, b) -> <<x, y, z>> on the scale 0..100
rgb_to_xyz(r, g, b) ==
    LET r_linear == cielab_expand(DivN(r * U, 255))
        g_linear == cielab_expand(DivN(g * U, 255))
        b_linear == cielab_expand(DivN(b * U, 255))
        x == Mul(r_linear, 412400) + Mul(g_linear, 357600) + Mul(b_linear, 180500)
        y == Mul(r_linear, 212600) + Mul(g_linear, 715200) + Mul(b_linear, 72200)
        z == Mul(r_linear, 19300) + Mul(g_linear, 119200) + Mul(b_linear, 950500)
    IN  << x * 100, y * 100, z * 100 >>

\* the lambda f of xyz_to_lab
cielab_f(t) == IF t > 8856 THEN Root(t, 3) ELSE Mul(7787000, t) + DivN(16 * U, 116)

\* lines 45-47 of xyz_to_lab: x, y, z over the D65 white (95.047, 100.000, 108.883)
xyz_over_white(x0, y0, z0) ==
    << Div(x0, 95047000), Div(y0, 100000000), Div(z0, 108883000) >>

\* lines 53-55 of xyz_to_lab: l, a, b from f(x), f(y), f(z)
lab_of_f(fx, fy, fz) == << 116 * fy - 16 * U, 500 * (fx - fy), 200 * (fy - fz) >>

\* lines 49-57 of xyz_to_lab, from the normalised <<x, y, z>>
lab_of_normalised(n) == lab_of_f(cielab_f(n[1]), cielab_f(n[2]), cielab_f(n[3]))

\* xyz_to_lab(x, y, z) -> <<l, a, b>>
xyz_to_lab(x0, y0, z0) == lab_of_normalised(xyz_over_white(x0, y0, z0))

\* the test of f_inv taken on t where the code takes it on t**3
cielab_f_inv_cubes_uncubed(t) == t > 8856

\* the test of the lambda f_inv of lab_to_xyz: t**3 > 0.008856
cielab_f_inv_cubes(t) == PowK(t, 3) > 8856

\* the lambda f_inv of lab_to_xyz
cielab_f_inv(t) ==
    IF cielab_f_inv_cubes(t) THEN PowK(t, 3) ELSE Div(t - DivN(16 * U, 116), 7787000)

\* lines 61-63 of lab_to_xyz: <<fx, fy, fz>>, of which fy is given
lab_fxyz(fy, a, b) == << DivN(a, 500) + fy, fy, fy - DivN(b, 200) >>

\* lines 69-71 of lab_to_xyz: x, y, z from <<fx, fy, fz>>
xyz_of_f(f) ==
    << Mul(95047000, cielab_f_inv(f[1])),
       Mul(100000000, cielab_f_inv(f[2])),
       Mul(108883000, cielab_f_inv(f[3])) >>

\* lab_to_xyz(l, a, b) -> <<x, y, z>>
lab_to_xyz(l, a, b) == xyz_of_f(lab_fxyz(DivN(l + 16 * U, 116), a, b))

\* the gamma step of xyz_to_rgb; the power is taken only above 0.0031308
cielab_gamma(c) ==
    IF c > 3131 THEN Mul(1055000, PowInv24(c)) - 55000 ELSE Mul(c, 12920000)

\* the first half of xyz_to_rgb: XYZ (0..100) -> linear RGB
xyz_to_linear(x0, y0, z0) ==
    LET x == DivN(x0, 100)
        y == DivN(y0, 100)
        z == DivN(z0, 100)
    IN  << Mul(x, 3240600) + Mul(y, -1537200) + Mul(z, -498600),
           Mul(x, -968900) + Mul(y, 1875800) + Mul(z, 41500),
           Mul(x, 55700) + Mul(y, -204000) + Mul(z, 1057000) >>

\* max(0, min(255, v)) left out: v as it is
cielab_clamp_off(v) == v

\* max(0, min(255, v))
cielab_clamp(v) == Max(0, Min(255, v))

\* xyz_to_rgb(x, y, z) -> <<r, g, b>>
xyz_to_rgb(x, y, z) ==
    LET lin == xyz_to_linear(x, y, z)
    IN  << cielab_clamp(IntTimes(cielab_gamma(lin[1]), 255)),
           cielab_clamp(IntTimes(cielab_gamma(lin[2]), 255)),
           cielab_clamp(IntTimes(cielab_gamma(lin[3]), 255)) >>

\* ------------------------------------------------------- oklch_spiral.py

\* oklch_to_oklab(l, c, h), h in degrees
oklch_to_oklab(l, c, h) ==
    LET h_rad == Radians(h)
    IN  << l, Mul(c, Cos(h_rad)), Mul(c, Sin(h_rad)) >>

\* oklab_to_linear_srgb(l, a, b): the cubes are taken whatever the sign
oklab_to_linear_srgb(l, a, b) ==
    LET l_ == PowK(l + Mul(396338, a) + Mul(215804, b), 3)
        m_ == PowK(l - Mul(105561, a) - Mul(63854, b), 3)
        s_ == PowK(l - Mul(89484, a) - Mul(1291486, b), 3)
    IN  << Mul(4076742, l_) - Mul(3307712, m_) + Mul(230970, s_),
           Mul(2609757, m_) - Mul(1268438, l_) - Mul(341319, s_),
           Mul(1707615, s_) - Mul(4196, l_) - Mul(703419, m_) >>

\* linear_to_srgb_gamma(c)
linear_to_srgb_gamma(c) ==
    IF c > 3131 THEN Mul(1055000, PowInv24(c)) - 55000 ELSE Mul(12920000, c)

\* int(max(0, min(255, g * 255))) for a float g; g * 255 >= 255 exactly when
\* g >= 1, and the product is formed only below that
oklch_clamp(g) == PyInt(Max(0, IF g >= U THEN 255 * U ELSE IF g <= 0 THEN 0 ELSE g * 255))

\* oklch_to_rgb(l, c, h) -> <<r, g, b>>
oklch_to_rgb(l, c, h) ==
    LET lab == oklch_to_oklab(l, c, h)
        lin == oklab_to_linear_srgb(lab[1], lab[2], lab[3])
    IN  << oklch_clamp(linear_to_srgb_gamma(lin[1])),
           oklch_clamp(linear_to_srgb_gamma(lin[2])),
           oklch_clamp(linear_to_srgb_gamma(lin[3])) >>

\* ---------------------------------------------------------- picoAmber1.py

\* srgb_to_linear(c)
srgb_to_linear(c) ==
    LET c_norm == DivN(c * U, 255)
    IN  IF c_norm > 40450 THEN Pow24(Div(c_norm + 55000, 1055000))
        ELSE Div(c_norm, 12920000)

\* lines 43-45 of rgb_to_xy: the tristimulus values <<x, y, z>> of linear RGB
amber_matrix(r_linear, g_linear, b_linear) ==
    << Mul(412456, r_linear) + Mul(357576, g_linear) + Mul(180438, b_linear),
       Mul(212673, r_linear) + Mul(715152, g_linear) + Mul(72175, b_linear),
       Mul(19334, r_linear) + Mul(119192, g_linear) + Mul(950304, b_linear) >>

\* lines 39-45 of rgb_to_xy
amber_xyz(r, g, b) ==
    amber_matrix(srgb_to_linear(r), srgb_to_linear(g), srgb_to_linear(b))

\* lines 47-51 of rgb_to_xy without the test of sum_xyz: the division raises
\* on a zero sum
amber_chroma_unguarded(x, y, sum_xyz) ==
    IF sum_xyz = 0 THEN <<"ZeroDivisionError">>
    ELSE << Div(x, sum_xyz), Div(y, sum_xyz) >>

\* lines 47-51 of rgb_to_xy
amber_chroma(x, y, sum_xyz) ==
    IF sum_xyz = 0 THEN <<0, 0>>
    ELSE << Div(x, sum_xyz), Div(y, sum_xyz) >>

\* lines 47-51 of rgb_to_xy, from the tristimulus values
amber_xy(xyz) == amber_chroma(xyz[1], xyz[2], xyz[1] + xyz[2] + xyz[3])

\* rgb_to_xy(r, g, b) -> <<x, y>>
rgb_to_xy(r, g, b) == amber_xy(amber_xyz(r, g, b))

\* lines 58-64 of is_in_amber_zone: the four boundary tests
amber_zone(x, y) ==
    LET TOLERANCE == 5000
        is_reddish_enough == y <= 390000 + TOLERANCE
        is_greenish_enough == y >= (x - 120000) - TOLERANCE
        is_not_too_white == y <= (790000 - Mul(670000, x)) + TOLERANCE
        is_x_in_range == x > 500000 - TOLERANCE /\ x < 650000 + TOLERANCE
    IN  << is_reddish_enough /\ is_greenish_enough
             /\ is_not_too_white /\ is_x_in_range >>

\* the rest of is_in_amber_zone once rgb_to_xy has returned xy; an exception
\* of rgb_to_xy passes through
amber_zone_of(xy) == IF Len(xy) = 1 THEN xy ELSE amber_zone(xy[1], xy[2])

\* is_in_amber_zone(r, g, b) -> <<TRUE>> or <<FALSE>>
is_in_amber_zone(r, g, b) == amber_zone_of(rgb_to_xy(r, g, b))

\* the word test_amber_detection prints for the answer d
amber_verdict(d) ==
    IF d = <<TRUE>> THEN <<"SUCCESS">>
    ELSE IF d = <<FALSE>> THEN <<"FAILURE">>
    ELSE d

\* test_amber_detection(): what it prints for its test_color, (255, 191, 0)
test_amber_detection(test_color) ==
    amber_verdict(is_in_amber_zone(test_color[1], test_color[2], test_color[3]))

\* -------------------------------------------------------------- pi5pwm.py

\* lerp(start, end, fraction)
lerp(start, end, fraction) == start + Mul(end - start, fraction)

\* x ** gamma with gamma = 2.8: x**2 * (x**(1/5))**4, for x >= 0
Pow28(x) == LET r == Root(x, 5) IN Mul(Mul(x, x), PowK(r, 4))

\* --------------------------------------------------------- harmonic_led.py

\* int(x * 255); in the hsv and hsl models every returned number is held as a
\* float, the int n as n * U, because one variant returns floats
Byte(x) == IntTimes(x, 255) * U

\* lines 66-77 of hsv_to_rgb: the sectors 0..4, and the else branch for the rest
harmonic_sector(sector, v, t, p, q) ==
    IF sector = 0 THEN <<v, t, p>>
    ELSE IF sector = 1 THEN <<q, v, p>>
    ELSE IF sector = 2 THEN <<p, v, t>>
    ELSE IF sector = 3 THEN <<p, q, v>>
    ELSE IF sector = 4 THEN <<t, p, v>>
    ELSE <<v, p, q>>

\* lines 57-64 of hsv_to_rgb: p, q, t from f, and the four int()
harmonic_pqt(sector, f, s, v) ==
    harmonic_sector(sector, Byte(v), Byte(Mul(v, U - Mul(s, U - f))),
                    Byte(Mul(v, U - s)), Byte(Mul(v, U - Mul(s, f))))

\* lines 55-56 of hsv_to_rgb: i = int(h), f = h - i, of the h scaled to 0-6
harmonic_scaled(h, s, v) == harmonic_pqt(PyInt(h), h - PyInt(h) * U, s, v)

\* harmonic_led.py: hsv_to_rgb(h, s, v)
harmonic_hsv_to_rgb(h, s, v) ==
    IF s = 0 THEN << Byte(v), Byte(v), Byte(v) >> ELSE harmonic_scaled(h * 6, s, v)

\* line 166: current_hue = y_val / 65535.0, of a joystick reading 0..65535
current_hue(y_val) == Div(y_val * 1000, 65535 * 1000)

\* ------------------------------------------------------ picoColorModels.py

\* lines 61-74 of hsv_to_rgb: r, g, b of sector i = 0..5, then the three int()
pcm_sector(sector, v, t, p, q) ==
    IF sector = 0 THEN << Byte(v), Byte(t), Byte(p) >>
    ELSE IF sector = 1 THEN << Byte(q), Byte(v), Byte(p) >>
    ELSE IF sector = 2 THEN << Byte(p), Byte(v), Byte(t) >>
    ELSE IF sector = 3 THEN << Byte(p), Byte(q), Byte(v) >>
    ELSE IF sector = 4 THEN << Byte(t), Byte(p), Byte(v) >>
    ELSE << Byte(v), Byte(p), Byte(q) >>

\* lines 52-59 of hsv_to_rgb: f, p, q, t and i = int(i) % 6, of i = floor(h * 6.0)
pcm_floor(sector, h6, s, v) ==
    pcm_sector(sector % 6, v, Mul(v, U - Mul(U - (h6 - sector * U), s)),
               Mul(v, U - s), Mul(v, U - Mul(h6 - sector * U, s)))

\* picoColorModels.py: hsv_to_rgb(h, s, v)
pcm_hsv_to_rgb(h, s, v) ==
    IF s = 0 THEN << Byte(v), Byte(v), Byte(v) >>
    ELSE pcm_floor((h * 6) \div U, h * 6, s, v)

\* lines 84-87 of hue_to_rgb, t already wrapped into 0..1
pcm_hue_ramp(p, q, t) ==
    IF t < 166667 THEN p + Mul((q - p) * 6, t)
    ELSE IF t < 500000 THEN q
    ELSE IF t < 666667 THEN p + Mul(q - p, 666667 - t) * 6
    ELSE p

\* hue_to_rgb(p, q, t) inside hsl_to_rgb
hue_to_rgb(p, q, t) ==
    pcm_hue_ramp(p, q, IF t < 0 THEN t + U ELSE IF t > U THEN t - U ELSE t)

\* lines 96-100 of hsl_to_rgb: r, g, b from p, q and the hue
pcm_hsl_pq(p, q, h) ==
    << Byte(hue_to_rgb(p, q, h + 333333)),
       Byte(hue_to_rgb(p, q, h)),
       Byte(hue_to_rgb(p, q, h - 333333)) >>

\* lines 93-94 of hsl_to_rgb: p = 2 * l - q
pcm_hsl_q(q, h, l) == pcm_hsl_pq(2 * l - q, q, h)

\* picoColorModels.py: hsl_to_rgb(h, s, l)
hsl_to_rgb(h, s, l) ==
    IF s = 0 THEN << Byte(l), Byte(l), Byte(l) >>
    ELSE pcm_hsl_q(IF l < 500000 THEN Mul(l, U + s) ELSE l + s - Mul(l, s), h, l)

\* ------------------------------------------- picoAmber1.py: hsv_to_rgb

\* lines 77-84 of hsv_to_rgb: the six ifs on i = 0..5, then the three int()
amber_sector(sector, v, t, p, q) ==
    IF sector = 0 THEN << Byte(v), Byte(t), Byte(p) >>
    ELSE IF sector = 1 THEN << Byte(q), Byte(v), Byte(p) >>
    ELSE IF sector = 2 THEN << Byte(p), Byte(v), Byte(t) >>
    ELSE IF sector = 3 THEN << Byte(p), Byte(q), Byte(v) >>
    ELSE IF sector = 4 THEN << Byte(t), Byte(p), Byte(v) >>
    ELSE << Byte(v), Byte(p), Byte(q) >>

\* lines 70-76 of hsv_to_rgb: f, p, q, t and i %= 6, of i = floor(h * 6.0)
amber_floor(sector, h6, s, v) ==
    amber_sector(sector % 6, v, Mul(v, U - Mul(s, U - (h6 - sector * U))),
               Mul(v, U - s), Mul(v, U - Mul(s, h6 - sector * U)))

\* picoAmber1.py: hsv_to_rgb(h, s, v); with s == 0.0 it returns v, v, v as they are
amber_hsv_to_rgb(h, s, v) ==
    IF s = 0 THEN <<v, v, v>> ELSE amber_floor((h * 6) \div U, h * 6, s, v)

\* ----------------------------------------------------- picoColorModels2.py

\* f_inv(t) inside cielab_to_rgb; 0.20689655 is 0.206897 to six decimals
f_inv(t) == IF t > 206897 THEN PowK(t, 3) ELSE Mul(3 * Mul(t, t), 206897)

\* lines 152-154 of cielab_to_rgb: <<fx, fy, fz>>, of which fy is given
pcm2_fxyz(fy, a, b) == << DivN(a, 500) + fy, fy, fy - DivN(b, 200) >>

\* lines 150 and 163-165 of cielab_to_rgb: x, y, z with xn, yn, zn = 0.95047,
\* 1.0, 1.08883
pcm2_xyz_of_f(f) ==
    << Mul(950470, f_inv(f[1])), Mul(U, f_inv(f[2])), Mul(1088830, f_inv(f[3])) >>

\* lines 150-165 of cielab_to_rgb: the <<x, y, z>> it hands to xyz_to_rgb
cielab_to_xyz(l, a, b) == pcm2_xyz_of_f(pcm2_fxyz(DivN(l + 16 * U, 116), a, b))

\* lines 137-139 of xyz_to_rgb: the gamma correction, of a channel already clamped
pcm2_gamma_clamped(c) ==
    IF c <= 3131 THEN Mul(c, 12920000) ELSE Mul(1055000, PowInv24(c)) - 55000

\* lines 127-141 of xyz_to_rgb, for one row of the matrix: the row, the clamp to
\* 0..1, the gamma correction and int(r * 255)
pcm2_channel(cx, cy, cz, x, y, z) ==
    IntTimes(pcm2_gamma_clamped(Max(0, Min(U, Mul(cx, x) + Mul(cy, y) + Mul(cz, z)))), 255)

\* picoColorModels2.py: xyz_to_rgb(x, y, z), x, y, z in 0..1
pcm2_xyz_to_rgb(x, y, z) ==
    << pcm2_channel(3240600, -1537200, -498600, x, y, z),
       pcm2_channel(-968900, 1875800, 41500, x, y, z),
       pcm2_channel(55700, -204000, 1057000, x, y, z) >>

\* line 167 of cielab_to_rgb: xyz_to_rgb of the <<x, y, z>> found
pcm2_rgb_of_xyz(xyz) == pcm2_xyz_to_rgb(xyz[1], xyz[2], xyz[3])

\* cielab_to_rgb(l, a, b) -> <<r, g, b>>
cielab_to_rgb(l, a, b) == pcm2_rgb_of_xyz(cielab_to_xyz(l, a, b))

\* ------------------------------------------------------------------ YUV.py

\* lines 43-45 of rgb_to_yuv: y, u, v of the normalised channels
yuv_of_norm(r_norm, g_norm, b_norm) ==
    << Mul(299000, r_norm) + Mul(587000, g_norm) + Mul(114000, b_norm),
       Mul(-147000, r_norm) - Mul(289000, g_norm) + Mul(436000, b_norm),
       Mul(615000, r_norm) - Mul(515000, g_norm) - Mul(100000, b_norm) >>

\* rgb_to_yuv(r, g, b) -> <<y, u, v>>
rgb_to_yuv(r, g, b) == yuv_of_norm(DivN(r * U, 255), DivN(g * U, 255), DivN(b * U, 255))

\* yuv_to_rgb(y, u, v) -> <<r, g, b>>: no clamp
yuv_to_rgb(y, u, v) ==
    << IntTimes(y + Mul(1140000, v), 255),
       IntTimes(y - Mul(395000, u) - Mul(581000, v), 255),
       IntTimes(y + Mul(2032000, u), 255) >>

\* ------------------------------------------------------ oklab_landscapes.py

\* lines 33-35 of xyz_to_rgb: the gamma step of one channel, no clamp
landscape_gamma(c) ==
    IF c > 3131 THEN Mul(1055000, PowInv24(c)) - 55000 ELSE Mul(12920000, c)

\* xyz_to_rgb(x, y, z) -> <<r, g, b>>
landscape_xyz_to_rgb(x, y, z) ==
    << IntTimes(landscape_gamma(Mul(3240600, x) - Mul(1537200, y) - Mul(498600, z)), 255),
       IntTimes(landscape_gamma(Mul(-968900, x) + Mul(1875800, y) + Mul(41500, z)), 255),
       IntTimes(landscape_gamma(Mul(55700, x) - Mul(204000, y) + Mul(1057000, z)), 255) >>

\* lines 42-44 of oklab_to_xyz: x, y, z of the cubes l, m, s
landscape_lms(l, m, s) ==
    << Mul(4076742, l) - Mul(3307712, m) + Mul(230970, s),
       Mul(2609757, m) - Mul(1268438, l) - Mul(341319, s),
       Mul(1707615, s) - Mul(4196, l) - Mul(703419, m) >>

\* oklab_to_xyz(L, a, b) followed by the x * 100, y * 100, z * 100 of line 223:
\* the division by 100 and the product by 100 cancel, so the triple of lines
\* 42-44 is what xyz_to_rgb receives
oklab_to_xyz_times_100(L, a, b) ==
    landscape_lms(PowK(L + Mul(396338, a) + Mul(215804, b), 3),
                  PowK(L - Mul(105561, a) - Mul(63854, b), 3),
                  PowK(L - Mul(89484, a) - Mul(1291486, b), 3))

\* TerrainObject.get_elevation: base_L + height * sin(progress * pi), with
\* progress = current_tick / width_ticks
get_elevation(base_L, height, current_tick, width_ticks) ==
    base_L + Mul(height, Sin(Mul(DivN(current_tick * U, width_ticks), 3141593)))

\* lines 215-218 of run: <<a, b>> from the chroma radius and the hue angle
landscape_ab(chroma, angle) == << Mul(chroma, Cos(angle)), Mul(chroma, Sin(angle)) >>

\* lines 212-223 of run: the clamp of L, a and b, and the two conversions
landscape_colour(L, ab) ==
    LET xyz == oklab_to_xyz_times_100(Max(0, Min(U, L)), ab[1], ab[2])
    IN  landscape_xyz_to_rgb(xyz[1], xyz[2], xyz[3])

\* ------------------------------------------------------------ circadian.py

\* progress as it is, without line 130
interpolate_clamp_off(progress) == progress

\* line 130 of interpolate_color: progress = max(0.0, min(1.0, progress))
interpolate_clamp(progress) == Max(0, Min(U, progress))

\* color_list[idx] as Python indexes a list: from the end when idx is negative,
\* IndexError outside -len .. len-1
py_index(color_list, idx) ==
    IF idx >= 0 /\ idx < Len(color_list) THEN color_list[idx + 1]
    ELSE IF idx < 0 /\ idx >= -Len(color_list) THEN color_list[Len(color_list) + idx + 1]
    ELSE <<"IndexError">>

\* lines 143-147 of interpolate_color: the three channels, then int()
interpolate_between(c1, c2, remainder) ==
    IF Len(c1) = 1 THEN c1
    ELSE IF Len(c2) = 1 THEN c2
    ELSE [k \in 1..3 |-> PyInt(c1[k] * U + (c2[k] - c1[k]) * remainder)]

\* lines 135-147 of interpolate_color: idx = int(pos), remainder = pos - idx
interpolate_at(color_list, max_idx, idx, pos) ==
    IF idx >= max_idx THEN py_index(color_list, -1)
    ELSE interpolate_between(py_index(color_list, idx), py_index(color_list, idx + 1),
                             pos - idx * U)

\* lines 133-134 of interpolate_color: pos = progress * max_idx
interpolate_clamped(color_list, max_idx, progress) ==
    interpolate_at(color_list, max_idx, PyInt(progress * max_idx), progress * max_idx)

\* interpolate_color(color_list, progress) -> <<r, g, b>>
interpolate_color(color_list, progress) ==
    interpolate_clamped(color_list, Len(color_list) - 1, interpolate_clamp(progress))

\* COLORS_NIGHT, COLORS_TWILIGHT, COLORS_DAY
COLORS_NIGHT == << <<5, 0, 15>>, <<10, 5, 30>>, <<20, 0, 40>>, <<5, 0, 15>> >>

COLORS_TWILIGHT == << <<20, 0, 50>>, <<100, 20, 50>>, <<200, 100, 0>>, <<255, 150, 50>> >>

COLORS_DAY == << <<255, 200, 100>>, <<255, 255, 220>>, <<200, 240, 255>>, <<255, 180, 50>> >>

\* ------------------------------------------------------------ clock_app2.py

\* leap years of the Gregorian calendar, as utime.mktime counts them
IsLeap(year) == (year % 4 = 0 /\ year % 100 # 0) \/ year % 400 = 0

\* the leap years before year
LeapsBefore(year) == (year - 1) \div 4 - (year - 1) \div 100 + (year - 1) \div 400

\* the days of the year before the first of month
DaysBeforeMonth(year, month) ==
    <<0, 31, 59, 90, 120, 151, 181, 212, 243, 273, 304, 334>>[month]
        + (IF month > 2 /\ IsLeap(year) THEN 1 ELSE 0)

\* the days of month
DaysInMonth(year, month) ==
    IF month = 2 THEN (IF IsLeap(year) THEN 29 ELSE 28)
    ELSE IF month \in {4, 6, 9, 11} THEN 30 ELSE 31

\* utime.localtime(utime.mktime((year, month, day, ...)))[6]: the weekday,
\* 0 = Monday .. 6 = Sunday; 1 January 2000 was a Saturday
localtime_weekday(year, month, day) ==
    (5 + (year - 2000) * 365 + LeapsBefore(year) - LeapsBefore(2000)
       + DaysBeforeMonth(year, month) + day - 1) % 7

\* the formula of lines 114 and 123 without its 1 +
dst_offset_off(year) == ((year * 5) \div 4) % 7

\* lines 114 and 123 of is_dst: (1 + int(year * 5 / 4)) % 7
dst_offset(year) == (1 + (year * 5) \div 4) % 7

\* lines 114-117 of is_dst, for a day of 8..14 March that is not a Sunday
dst_march_formula(dst_start_day, day, hour) ==
    IF day > dst_start_day THEN TRUE
    ELSE IF day < dst_start_day THEN FALSE
    ELSE hour >= 2

\* lines 88-117 of is_dst: March
dst_march(year, day, hour) ==
    IF day < 8 THEN FALSE
    ELSE IF day > 14 THEN TRUE
    ELSE IF localtime_weekday(year, 3, day) = 6 THEN hour >= 2
    ELSE dst_march_formula(14 - dst_offset(year), day, hour)

\* lines 119-126 of is_dst: November
dst_november(dst_end_day, day, hour) ==
    IF day > dst_end_day THEN FALSE
    ELSE IF day < dst_end_day THEN TRUE
    ELSE hour < 2

\* is_dst(year, month, day, hour)
is_dst(year, month, day, hour) ==
    IF month < 3 \/ month > 11 THEN FALSE
    ELSE IF month > 3 /\ month < 11 THEN TRUE
    ELSE IF month = 3 THEN dst_march(year, day, hour)
    ELSE dst_november(7 - dst_offset(year), day, hour)

\* ---------------------------------------------------------- settings_app.py
\* a line is the sequence of its characters

\* "WIFI_SSID ="
SSID_PREFIX == <<"W", "I", "F", "I", "_", "S", "S", "I", "D", " ", "=">>

\* "WIFI_PASSWORD ="
PASSWORD_PREFIX ==
    <<"W", "I", "F", "I", "_", "P", "A", "S", "S", "W", "O", "R", "D", " ", "=">>

\* prefix found anywhere in line
config_contains(line, prefix) ==
    \E k \in 1..Len(line) :
        /\ k + Len(prefix) - 1 <= Len(line)
        /\ SubSeq(line, k, k + Len(prefix) - 1) = prefix

\* line.startswith(prefix)
config_startswith(line, prefix) ==
    Len(line) >= Len(prefix) /\ SubSeq(line, 1, Len(prefix)) = prefix

\* f"WIFI_SSID = '{ssid}'\n"
ssid_line(ssid) == SSID_PREFIX \o <<" ", "'">> \o ssid \o <<"'", "\n">>

\* f"WIFI_PASSWORD = '{password}'\n"
password_line(password) == PASSWORD_PREFIX \o <<" ", "'">> \o password \o <<"'", "\n">>

\* the body of the loop of lines 29-35 for one line
config_new_line(line, ssid, password) ==
    IF config_startswith(line, SSID_PREFIX) THEN ssid_line(ssid)
    ELSE IF config_startswith(line, PASSWORD_PREFIX) THEN password_line(password)
    ELSE line

\* new_lines of save_wifi_config
config_new_lines(lines, ssid, password) ==
    [k \in 1..Len(lines) |-> config_new_line(lines[k], ssid, password)]

\* ------------------------------------------------------------- blackbody.py

\* the test of line 85 with the ends left out
blackbody_reverses_late(temp) == temp > 12000 \/ temp < 1000

\* line 85 of run_blackbody_loop: temp >= 12000 or temp <= 1000
blackbody_reverses(temp) == temp >= 12000 \/ temp <= 1000

\* kelvin_to_rgb: the arguments it hands to math.log, in hundredths (temp / 100.0
\* is kept as temp): g on line 56, b on line 68
kelvin_log_args(temp) ==
    (IF temp <= 6600 THEN <<temp>> ELSE <<>>)
        \o (IF temp >= 6600 THEN <<>>
            ELSE IF temp <= 1900 THEN <<>>
            ELSE <<temp - 1000>>)

\* ----------------------------------------------------------- schrodinger.py
\* center and width are kept in tenths

\* get_spectral_overlap(led_peak_nm, window_center, window_width), with w_start
\* and w_end in twentieths
get_spectral_overlap(led_peak_nm, window_center, window_width) ==
    IF 2 * window_center - window_width < 2 * window_center + window_width
    THEN (IF /\ 2 * window_center - window_width <= 20 * led_peak_nm
             /\ 20 * led_peak_nm <= 2 * window_center + window_width
          THEN 255 ELSE 0)
    ELSE (IF \/ 20 * led_peak_nm >= 2 * window_center - window_width
             \/ 20 * led_peak_nm <= 2 * window_center + window_width
          THEN 255 ELSE 0)

\* lines 105-106: the centre after center += center_speed
schrodinger_center(center) == IF center + 3 > 1000 THEN 0 ELSE center + 3

\* line 114: width > 60 or width < 5; width is a sum of many 0.1, so at 60.0 and
\* at 5.0 the rounding of the sum decides and both answers are kept
schrodinger_turns(width) ==
    IF width = 600 \/ width = 50 THEN BOOLEAN
    ELSE {width > 600 \/ width < 50}

\* ------------------------------------------------- pico_circadian_light.py

hourly_colors ==
    << <<100, 0, 150>>, <<50, 50, 150>>, <<150, 0, 50>>, <<50, 0, 100>>,
       <<20, 20, 100>>, <<50, 50, 150>>, <<100, 100, 200>>, <<150, 150, 255>>,
       <<255, 150, 0>>, <<255, 200, 50>>, <<255, 255, 200>>, <<255, 255, 220>>,
       <<255, 255, 250>>, <<255, 255, 230>>, <<255, 200, 50>>, <<255, 150, 0>>,
       <<200, 200, 50>>, <<255, 100, 0>>, <<255, 50, 150>>, <<100, 150, 255>>,
       <<50, 100, 255>>, <<0, 50, 150>>, <<20, 0, 100>>, <<5, 0, 50>> >>

\* line 71 without its test of the hour
pcl_start_index_unwrapped(current_hour) == current_hour - 1

\* line 71 of main: the index of start_color
pcl_start_index(current_hour) == IF current_hour > 0 THEN current_hour - 1 ELSE 23

\* lines 78 and 81-83 of main: int(start + (end - start) * seconds / 3600) of one
\* channel. Where the exact value is whole and the factor is not 0, the float
\* product may fall just short of it, and int() then gives one less: both are kept
pcl_channel(start, end, seconds) ==
    IF (start * 3600 + (end - start) * seconds) % 3600 = 0 /\ seconds # 0 /\ end # start
    THEN { (start * 3600 + (end - start) * seconds) \div 3600,
           (start * 3600 + (end - start) * seconds) \div 3600 - 1 }
    ELSE { (start * 3600 + (end - start) * seconds) \div 3600 }

\* lines 71-83 of main: the colours main can show at hour:minute:second
pcl_colours(start_color, end_color, seconds) ==
    pcl_channel(start_color[1], end_color[1], seconds)
        \X pcl_channel(start_color[2], end_color[2], seconds)
        \X pcl_channel(start_color[3], end_color[3], seconds)

\* ------------------------------------------- picorgbFade.py, picoRGBled.py

\* lines 30-32 of fade_color (picoRGBled.py 12-14): int(start + (end - start) * k / steps)
\* of one channel; the value is not negative, so int() is the floor
fade_color_channel(start, end, k, steps) ==
    (start * steps + (end - start) * k) \div steps

\* ------------------------------------------- oklch_spiral.py: the animation

LIGHTNESS == 700000

CHROMA_MIN == 20000

CHROMA_MAX == 150000

HUE_SPEED == 500000

CHROMA_OSC_SPEED == 2

\* lines 111-112 of main_loop
chroma_amplitude == DivN(CHROMA_MAX - CHROMA_MIN, 2)

chroma_midpoint == CHROMA_MIN + chroma_amplitude

\* lines 117-118 of main_loop; math.radians(hue * CHROMA_OSC_SPEED) is taken as
\* CHROMA_OSC_SPEED * math.radians(hue), which stays within 31 bits
spiral_chroma(hue) ==
    chroma_midpoint + Mul(chroma_amplitude, Sin(CHROMA_OSC_SPEED * Radians(hue)))

\* the wrap of lines 128-129 with > in place of >=
spiral_wrap_late(hue) == IF hue > 360 * U THEN hue - 360 * U ELSE hue

\* lines 128-129 of main_loop: if hue >= 360.0: hue -= 360.0
spiral_wrap(hue) == IF hue >= 360 * U THEN hue - 360 * U ELSE hue

\* ----------------------------------------------------------- picoServer1.py

\* lines 22-32: the file a path is answered from, "" for every other path
server_file(path) ==
    IF path = "/" \/ path = "/index.html" THEN "index.html"
    ELSE IF path = "/style.css" THEN "style.css"
    ELSE IF path = "/script.js" THEN "script.js"
    ELSE ""

\* lines 22-38: content_type
server_content_type(path) ==
    IF path = "/" \/ path = "/index.html" THEN "text/html"
    ELSE IF path = "/style.css" THEN "text/css"
    ELSE IF path = "/script.js" THEN "application/javascript"
    ELSE "text/html"

\* lines 21-49: what is sent on the connection, one element for each send;
\* readable is the set of files read_file can read, and the content of a file
\* is written <<"content of", file>>
server_sends(path, readable) ==
    IF server_file(path) # "" /\ server_file(path) \notin readable
    THEN << "HTTP/1.1 500 Internal Server Error\r\n\r\n",
            "Error: File not found or couldn't be read." >>
    ELSE << "HTTP/1.1 200 OK\r\n",
            <<"Content-Type: ", server_content_type(path), "\r\n">>,
            "Connection: close\r\n\r\n",
            IF server_file(path) = "" THEN "<h1>404 Not Found</h1>"
            ELSE <<"content of", server_file(path)>> >>

\* ------------------------------------------------------ sampled arguments

Levels == { (255 * k) \div MaxLevel : k \in 0..MaxLevel }

Rgb8 == Levels \X Levels \X Levels

\* ------------------------------------- oklab2.py: RGB -> Oklab -> RGB

InitOklab2 ==
    /\ fn = "oklab2.rgb_to_oklab"
    /\ args \in Rgb8
    /\ status = "called"
    /\ mid = <<>>
    /\ ret = <<>>
    /\ i = 0
    /\ emitted = <<>>

\* start_oklab = rgb_to_oklab(*start_rgb)
Oklab2Forward ==
    /\ fn = "oklab2.rgb_to_oklab"
    /\ status = "called"
    /\ mid' = rgb_to_oklab(args[1], args[2], args[3])
    /\ status' = "converted"
    /\ UNCHANGED <<fn, args, ret, i, emitted>>

\* r, g, b = oklab_to_rgb(current_L, current_a, current_b)
Oklab2Back ==
    /\ fn = "oklab2.rgb_to_oklab"
    /\ status = "converted"
    /\ ret' = oklab_to_rgb(mid[1], mid[2], mid[3])
    /\ status' = "returned"
    /\ UNCHANGED <<fn, args, mid, i, emitted>>

NextOklab2 == Oklab2Forward \/ Oklab2Back

SpecOklab2 == InitOklab2 /\ [][NextOklab2]_vars

\* -------------------- the space-to-RGB converters on out-of-gamut input

\* L, a, b of oklab.py's oklab_to_rgb
OklabArgs == { (k * U) \div 2 : k \in -1..MaxK } \X {-400000, 0, 400000} \X {-400000, 0, 400000}

\* x, y, z of picoCIELAB.py's xyz_to_rgb (the scale on which white has Y = 100)
XyzArgs == LET c == { 50 * k * U : k \in -1..MaxK } IN c \X c \X c

\* l, c, h of oklch_spiral.py's oklch_to_rgb
OklchArgs == { (k * U) \div 2 : k \in -1..MaxK } \X {0, 150000, 400000}
                 \X { 45 * k * U : k \in 0..8 }

InitToRgb ==
    /\ \/ fn = "oklab.oklab_to_rgb" /\ args \in OklabArgs
       \/ fn = "picoCIELAB.xyz_to_rgb" /\ args \in XyzArgs
       \/ fn = "oklch_spiral.oklch_to_rgb" /\ args \in OklchArgs
    /\ status = "called"
    /\ mid = <<>>
    /\ ret = <<>>
    /\ i = 0
    /\ emitted = <<>>

\* oklab.py: oklab_to_rgb(L, a, b); mid keeps the linear RGB it went through
CallOklabToRgb ==
    /\ fn = "oklab.oklab_to_rgb"
    /\ status = "called"
    /\ mid' = oklab_to_linear(args[1], args[2], args[3])
    /\ ret' = oklab_oklab_to_rgb(args[1], args[2], args[3])
    /\ status' = "returned"
    /\ UNCHANGED <<fn, args, i, emitted>>

\* picoCIELAB.py: xyz_to_rgb(x, y, z)
CallXyzToRgb ==
    /\ fn = "picoCIELAB.xyz_to_rgb"
    /\ status = "called"
    /\ mid' = xyz_to_linear(args[1], args[2], args[3])
    /\ ret' = xyz_to_rgb(args[1], args[2], args[3])
    /\ status' = "returned"
    /\ UNCHANGED <<fn, args, i, emitted>>

\* oklch_spiral.py: oklch_to_rgb(l, c, h)
CallOklchToRgb ==
    /\ fn = "oklch_spiral.oklch_to_rgb"
    /\ status = "called"
    /\ mid' = LET lab == oklch_to_oklab(args[1], args[2], args[3])
              IN  oklab_to_linear_srgb(lab[1], lab[2], lab[3])
    /\ ret' = oklch_to_rgb(args[1], args[2], args[3])
    /\ status' = "returned"
    /\ UNCHANGED <<fn, args, i, emitted>>

NextToRgb == CallOklabToRgb \/ CallXyzToRgb \/ CallOklchToRgb

SpecToRgb == InitToRgb /\ [][NextToRgb]_vars

\* ------------------------------------------------- the gradient routines

\* a + b * n and (b - a) / n, component by component
Along(a, b, n) == [k \in 1..3 |-> a[k] + b[k] * n]

StepSize(a, b, n) == [k \in 1..3 |-> DivN(b[k] - a[k], n)]

\* start_rgb and end_rgb of create_smooth_gradient: the corners of the RGB cube
CornerRgb == {0, 255} \X {0, 255} \X {0, 255}

\* what get_random_oklab_color can draw: the ends and the middle of its ranges
RandomOklab == {300000, 800000} \X {-100000, 200000} \X {-200000, 0, 200000}

\* start_rgb and end_rgb of fade_to_color, each channel 0.0 to 1.0
FadeRgb == { <<U, 0, 0>>, <<0, U, U>>, <<U \div 2, U \div 2, U \div 2>> }

InitGradient ==
    /\ \/ /\ fn = "picoCIELAB.create_smooth_gradient"
          /\ args \in CornerRgb \X CornerRgb \X (0..MaxSteps)
       \/ /\ fn = "oklab.show_random_oklab_gradient"
          /\ args \in RandomOklab \X { <<800000, 200000, 200000>>, <<300000, -100000, 0>> }
                        \X (0..MaxSteps)
       \/ /\ fn = "pi5pwm.fade_to_color"
          /\ args \in FadeRgb \X FadeRgb \X (0..MaxSteps)
    /\ status = "called"
    /\ mid = <<>>
    /\ ret = <<>>
    /\ i = 0
    /\ emitted = <<>>

\* picoCIELAB.py 112-116: both ends are converted to CIELAB
CsgConvert ==
    /\ fn = "picoCIELAB.create_smooth_gradient"
    /\ status = "called"
    /\ mid' = << LET xyz == rgb_to_xyz(args[1][1], args[1][2], args[1][3])
                 IN  xyz_to_lab(xyz[1], xyz[2], xyz[3]),
                 LET xyz == rgb_to_xyz(args[2][1], args[2][2], args[2][3])
                 IN  xyz_to_lab(xyz[1], xyz[2], xyz[3]) >>
    /\ status' = "converted"
    /\ UNCHANGED <<fn, args, ret, i, emitted>>

\* picoCIELAB.py 119-121: the step sizes; the division raises when n_steps is 0
CsgStepSize ==
    /\ fn = "picoCIELAB.create_smooth_gradient"
    /\ status = "converted"
    /\ IF args[3] = 0
         THEN status' = "raised" /\ ret' = <<"ZeroDivisionError">> /\ UNCHANGED mid
         ELSE /\ status' = "loop"
              /\ mid' = Append(mid, StepSize(mid[1], mid[2], args[3]))
              /\ UNCHANGED ret
    /\ UNCHANGED <<fn, args, i, emitted>>

\* picoCIELAB.py 124-144: one pass of the loop
CsgEmit ==
    /\ fn = "picoCIELAB.create_smooth_gradient"
    /\ status = "loop"
    /\ i <= args[3]
    /\ LET current_lab == Along(mid[1], mid[3], i)
           current_xyz == lab_to_xyz(current_lab[1], current_lab[2], current_lab[3])
           current_rgb == xyz_to_rgb(current_xyz[1], current_xyz[2], current_xyz[3])
       IN  emitted' = Append(emitted, current_rgb)
    /\ i' = i + 1
    /\ UNCHANGED <<fn, args, status, mid, ret>>

\* picoCIELAB.py 124: the range is exhausted and the function returns
CsgReturn ==
    /\ fn = "picoCIELAB.create_smooth_gradient"
    /\ status = "loop"
    /\ i > args[3]
    /\ status' = "returned"
    /\ UNCHANGED <<fn, args, mid, ret, i, emitted>>

\* oklab.py 92-94: the step sizes; the division raises when steps is 0
SrogStepSize ==
    /\ fn = "oklab.show_random_oklab_gradient"
    /\ status = "called"
    /\ IF args[3] = 0
         THEN status' = "raised" /\ ret' = <<"ZeroDivisionError">> /\ UNCHANGED mid
         ELSE /\ status' = "loop"
              /\ mid' = << StepSize(args[1], args[2], args[3]) >>
              /\ UNCHANGED ret
    /\ UNCHANGED <<fn, args, i, emitted>>

\* oklab.py 96-105: one pass of the loop
SrogEmit ==
    /\ fn = "oklab.show_random_oklab_gradient"
    /\ status = "loop"
    /\ i <= args[3]
    /\ LET current == Along(args[1], mid[1], i)
       IN  emitted' = Append(emitted, oklab_oklab_to_rgb(current[1], current[2], current[3]))
    /\ i' = i + 1
    /\ UNCHANGED <<fn, args, status, mid, ret>>

\* oklab.py 96, 107: the range is exhausted and the function returns
SrogReturn ==
    /\ fn = "oklab.show_random_oklab_gradient"
    /\ status = "loop"
    /\ i > args[3]
    /\ status' = "returned"
    /\ UNCHANGED <<fn, args, mid, ret, i, emitted>>

\* pi5pwm.py 15-27: one pass of the loop; fraction = i / steps raises when
\* steps is 0
FadeEmit ==
    /\ fn = "pi5pwm.fade_to_color"
    /\ status = "called"
    /\ i <= args[3]
    /\ IF args[3] = 0
         THEN status' = "raised" /\ ret' = <<"ZeroDivisionError">> /\ UNCHANGED <<i, emitted>>
         ELSE /\ LET fraction == DivN(i * U, args[3])
                 IN  emitted' = Append(emitted,
                        [k \in 1..3 |-> Pow28(lerp(args[1][k], args[2][k], fraction))])
              /\ i' = i + 1
              /\ UNCHANGED <<status, ret>>
    /\ UNCHANGED <<fn, args, mid>>

\* pi5pwm.py 15: the range is exhausted and the function returns
FadeReturn ==
    /\ fn = "pi5pwm.fade_to_color"
    /\ status = "called"
    /\ i > args[3]
    /\ status' = "returned"
    /\ UNCHANGED <<fn, args, mid, ret, i, emitted>>

NextGradient ==
    \/ CsgConvert \/ CsgStepSize \/ CsgEmit \/ CsgReturn
    \/ SrogStepSize \/ SrogEmit \/ SrogReturn
    \/ FadeEmit \/ FadeReturn

SpecGradient == InitGradient /\ [][NextGradient]_vars

\* ------------------------------------------ picoAmber1.py: the amber zone

\* r, g, b: the sampled cube, the darkest colours and the two colours of the test
AmberArgs == Rgb8 \cup { <<255, 191, 0>>, <<0, 255, 0>>, <<0, 0, 0>>,
                         <<1, 0, 0>>, <<0, 1, 0>>, <<0, 0, 1>>, <<1, 1, 1>> }

InitAmber ==
    /\ \/ fn \in {"picoAmber1.rgb_to_xy", "picoAmber1.is_in_amber_zone"} /\ args \in AmberArgs
       \/ fn = "picoAmber1.test_amber_detection" /\ args = <<255, 191, 0>>
    /\ status = "called"
    /\ mid = <<>>
    /\ ret = <<>>
    /\ i = 0
    /\ emitted = <<>>

\* rgb_to_xy(r, g, b); mid keeps X, Y, Z
CallRgbToXy ==
    /\ fn = "picoAmber1.rgb_to_xy"
    /\ status = "called"
    /\ mid' = amber_xyz(args[1], args[2], args[3])
    /\ ret' = rgb_to_xy(args[1], args[2], args[3])
    /\ status' = IF Len(ret') = 2 THEN "returned" ELSE "raised"
    /\ UNCHANGED <<fn, args, i, emitted>>

\* is_in_amber_zone(r, g, b); mid keeps the chromaticity it tested
CallIsInAmberZone ==
    /\ fn = "picoAmber1.is_in_amber_zone"
    /\ status = "called"
    /\ mid' = rgb_to_xy(args[1], args[2], args[3])
    /\ ret' = is_in_amber_zone(args[1], args[2], args[3])
    /\ status' = IF Len(mid') = 2 THEN "returned" ELSE "raised"
    /\ UNCHANGED <<fn, args, i, emitted>>

\* test_amber_detection(); args is its test_color, ret the word it prints
CallTestAmberDetection ==
    /\ fn = "picoAmber1.test_amber_detection"
    /\ status = "called"
    /\ mid' = rgb_to_xy(args[1], args[2], args[3])
    /\ ret' = test_amber_detection(args)
    /\ status' = IF Len(mid') = 2 THEN "returned" ELSE "raised"
    /\ UNCHANGED <<fn, args, i, emitted>>

NextAmber == CallRgbToXy \/ CallIsInAmberZone \/ CallTestAmberDetection

SpecAmber == InitAmber /\ [][NextAmber]_vars

\* ------------------------------------------------- hsv_to_rgb, hsl_to_rgb

\* hue: the readings from 0 to 65535 give 0.0 to 1.0, both ends included
Hues == { current_hue((65535 * k) \div MaxHue) : k \in 0..MaxHue }

\* saturation 0, 0.5, 1
Sats == { 0, U \div 2, U }

\* value or lightness 0, 0.1, 0.5, 1
Vals == { 0, U \div 10, U \div 2, U }

InitHsv ==
    /\ fn \in { "harmonic_led.hsv_to_rgb", "picoColorModels.hsv_to_rgb",
                "picoColorModels.hsl_to_rgb", "picoAmber1.hsv_to_rgb" }
    /\ args \in Hues \X Sats \X Vals
    /\ status = "called"
    /\ mid = <<>>
    /\ ret = <<>>
    /\ i = 0
    /\ emitted = <<>>

\* harmonic_led.py: hsv_to_rgb(h, s, v)
CallHarmonicHsv ==
    /\ fn = "harmonic_led.hsv_to_rgb"
    /\ status = "called"
    /\ ret' = harmonic_hsv_to_rgb(args[1], args[2], args[3])
    /\ status' = "returned"
    /\ UNCHANGED <<fn, args, mid, i, emitted>>

\* picoColorModels.py: hsv_to_rgb(h, s, v)
CallPcmHsv ==
    /\ fn = "picoColorModels.hsv_to_rgb"
    /\ status = "called"
    /\ ret' = pcm_hsv_to_rgb(args[1], args[2], args[3])
    /\ status' = "returned"
    /\ UNCHANGED <<fn, args, mid, i, emitted>>

\* picoColorModels.py: hsl_to_rgb(h, s, l)
CallPcmHsl ==
    /\ fn = "picoColorModels.hsl_to_rgb"
    /\ status = "called"
    /\ ret' = hsl_to_rgb(args[1], args[2], args[3])
    /\ status' = "returned"
    /\ UNCHANGED <<fn, args, mid, i, emitted>>

\* picoAmber1.py: hsv_to_rgb(h, s, v)
CallAmberHsv ==
    /\ fn = "picoAmber1.hsv_to_rgb"
    /\ status = "called"
    /\ ret' = amber_hsv_to_rgb(args[1], args[2], args[3])
    /\ status' = "returned"
    /\ UNCHANGED <<fn, args, mid, i, emitted>>

NextHsv == CallHarmonicHsv \/ CallPcmHsv \/ CallPcmHsl \/ CallAmberHsv

SpecHsv == InitHsv /\ [][NextHsv]_vars

\* ------------------------------------------------- CIELAB: the companding

\* L = 0..100 and a, b = -100..100 for cielab_to_rgb
LabArgs ==
    { (100 * U * k) \div MaxLevel : k \in 0..MaxLevel }
        \X { (200 * U * k) \div MaxLevel - 100 * U : k \in 0..MaxLevel }
        \X { (200 * U * k) \div MaxLevel - 100 * U : k \in 0..MaxLevel }

\* a component over its white: around the threshold 0.008856, and 0, 0.5, 1
NearThreshold == { 8856 + k : k \in -1..MaxK } \cup { 0, U \div 2, U }

\* x, y, z for xyz_to_lab: each component of NearThreshold times its white
XyzNear ==
    { Mul(t, 95047000) : t \in NearThreshold }
        \X { Mul(t, 100000000) : t \in NearThreshold }
        \X { Mul(t, 108883000) : t \in NearThreshold }

InitLab ==
    /\ \/ fn = "picoColorModels2.cielab_to_rgb" /\ args \in LabArgs
       \/ fn = "picoCIELAB.xyz_to_lab" /\ args \in XyzNear
    /\ status = "called"
    /\ mid = <<>>
    /\ ret = <<>>
    /\ i = 0
    /\ emitted = <<>>

\* cielab_to_rgb(l, a, b); mid keeps the x, y, z it hands to xyz_to_rgb
CallCielabToRgb ==
    /\ fn = "picoColorModels2.cielab_to_rgb"
    /\ status = "called"
    /\ mid' = cielab_to_xyz(args[1], args[2], args[3])
    /\ ret' = cielab_to_rgb(args[1], args[2], args[3])
    /\ status' = "returned"
    /\ UNCHANGED <<fn, args, i, emitted>>

\* xyz_to_lab(x, y, z); mid keeps l, a, b
CallXyzToLab ==
    /\ fn = "picoCIELAB.xyz_to_lab"
    /\ status = "called"
    /\ mid' = xyz_to_lab(args[1], args[2], args[3])
    /\ status' = "lab"
    /\ UNCHANGED <<fn, args, ret, i, emitted>>

\* lab_to_xyz(*xyz_to_lab(x, y, z))
CallLabToXyz ==
    /\ fn = "picoCIELAB.xyz_to_lab"
    /\ status = "lab"
    /\ ret' = lab_to_xyz(mid[1], mid[2], mid[3])
    /\ status' = "returned"
    /\ UNCHANGED <<fn, args, mid, i, emitted>>

NextLab == CallCielabToRgb \/ CallXyzToLab \/ CallLabToXyz

SpecLab == InitLab /\ [][NextLab]_vars

\* ------------------------------- YUV.py and oklab_landscapes.py: the LED sink

\* base_L and the ends of terrain_height of the three LANDSCAPE_MODES
LandscapeModes ==
    { <<600000, 50000>>, <<600000, 100000>>, <<400000, 150000>>, <<400000, 300000>>,
      <<300000, 400000>>, <<300000, 600000>> }

\* initial_hue_offset, drawn from 0 .. 2*pi, and hue_speed, drawn from 0.8 .. 1.2
LandscapeHues == { 0, 1570796, 3141593, 4712389 } \X { 800000, 1200000 }

\* The effects as the main loop of YUV.py calls them, and a landscape run whose
\* args are <<base_L, height, initial_hue_offset, hue_speed>>
InitSink ==
    /\ \/ fn = "YUV.luma_fade_effect" /\ args = <<255, 105, 180>>
       \/ fn = "YUV.chrominance_desaturation_effect" /\ args = <<0, 255, 255>>
       \/ /\ fn = "oklab_landscapes.run"
          /\ args \in { <<m[1], m[2], h[1], h[2]>> : m \in LandscapeModes, h \in LandscapeHues }
    /\ status = "called"
    /\ mid = <<>>
    /\ ret = <<>>
    /\ i = 0
    /\ emitted = <<>>

\* YUV.py 71 and 94: y_base, u_base, v_base = rgb_to_yuv(*target_rgb)
YuvBase ==
    /\ fn \in {"YUV.luma_fade_effect", "YUV.chrominance_desaturation_effect"}
    /\ status = "called"
    /\ mid' = rgb_to_yuv(args[1], args[2], args[3])
    /\ status' = "first_loop"
    /\ UNCHANGED <<fn, args, ret, i, emitted>>

\* YUV.py 74-78: one pass of the fade in; ret is the triple handed to set_rgb
LumaFadeIn ==
    /\ fn = "YUV.luma_fade_effect"
    /\ status = "first_loop"
    /\ i <= 100
    /\ ret' = yuv_to_rgb(DivN(i * U, 100), mid[2], mid[3])
    /\ i' = i + 1
    /\ UNCHANGED <<fn, args, status, mid, emitted>>

\* YUV.py 74, 81: range(101) is exhausted, range(100, -1, -1) begins
LumaTurn ==
    /\ fn = "YUV.luma_fade_effect"
    /\ status = "first_loop"
    /\ i > 100
    /\ status' = "second_loop"
    /\ i' = 100
    /\ UNCHANGED <<fn, args, mid, ret, emitted>>

\* YUV.py 81-85: one pass of the fade out
LumaFadeOut ==
    /\ fn = "YUV.luma_fade_effect"
    /\ status = "second_loop"
    /\ i >= 0
    /\ ret' = yuv_to_rgb(DivN(i * U, 100), mid[2], mid[3])
    /\ i' = i - 1
    /\ UNCHANGED <<fn, args, status, mid, emitted>>

\* YUV.py 81: the range is exhausted and the effect returns
LumaReturn ==
    /\ fn = "YUV.luma_fade_effect"
    /\ status = "second_loop"
    /\ i < 0
    /\ status' = "returned"
    /\ UNCHANGED <<fn, args, mid, ret, i, emitted>>

\* YUV.py 97-103: one pass from full colour to grey, scale = 1 - i / 100.0
DesatOut ==
    /\ fn = "YUV.chrominance_desaturation_effect"
    /\ status = "first_loop"
    /\ i <= 100
    /\ ret' = yuv_to_rgb(mid[1], Mul(mid[2], U - DivN(i * U, 100)),
                         Mul(mid[3], U - DivN(i * U, 100)))
    /\ i' = i + 1
    /\ UNCHANGED <<fn, args, status, mid, emitted>>

\* YUV.py 97, 106: the first range(101) is exhausted, the second begins
DesatTurn ==
    /\ fn = "YUV.chrominance_desaturation_effect"
    /\ status = "first_loop"
    /\ i > 100
    /\ status' = "second_loop"
    /\ i' = 0
    /\ UNCHANGED <<fn, args, mid, ret, emitted>>

\* YUV.py 106-112: one pass from grey back to full colour, scale = i / 100.0
DesatIn ==
    /\ fn = "YUV.chrominance_desaturation_effect"
    /\ status = "second_loop"
    /\ i <= 100
    /\ ret' = yuv_to_rgb(mid[1], Mul(mid[2], DivN(i * U, 100)), Mul(mid[3], DivN(i * U, 100)))
    /\ i' = i + 1
    /\ UNCHANGED <<fn, args, status, mid, emitted>>

\* YUV.py 106: the range is exhausted and the effect returns
DesatReturn ==
    /\ fn = "YUV.chrominance_desaturation_effect"
    /\ status = "second_loop"
    /\ i > 100
    /\ status' = "returned"
    /\ UNCHANGED <<fn, args, mid, ret, i, emitted>>

\* oklab_landscapes.py 156-166: _setup_new_mode; mid is <<current_tick,
\* time_until_next_terrain, hue_time>>, current_tick = -1 while there is no terrain
LandscapeSetup ==
    /\ fn = "oklab_landscapes.run"
    /\ status = "called"
    /\ mid' = << -1, MaxTicks, 0 >>
    /\ status' = "loop"
    /\ UNCHANGED <<fn, args, ret, i, emitted>>

\* oklab_landscapes.py 196-224: one pass of the loop of run on a terrain feature;
\* ret is the triple handed to set_rgb, i counts mode_progress_ticks
LandscapeOnTerrain ==
    /\ fn = "oklab_landscapes.run"
    /\ status = "loop"
    /\ i < 3 * MaxTicks
    /\ mid[1] >= 0
    /\ ret' = landscape_colour(get_elevation(args[1], args[2], mid[1], MaxTicks),
                 landscape_ab(150000 + Mul(50000, Sin(Mul(mid[3], 200000))),
                              Mul(mid[3], args[4]) + args[3]))
    /\ mid' = IF mid[1] + 1 >= MaxTicks THEN << -1, MaxTicks, mid[3] + 50000 >>
              ELSE << mid[1] + 1, mid[2], mid[3] + 50000 >>
    /\ i' = i + 1
    /\ UNCHANGED <<fn, args, status, emitted>>

\* oklab_landscapes.py 196-224: one pass of the loop of run on flat ground
LandscapeInValley ==
    /\ fn = "oklab_landscapes.run"
    /\ status = "loop"
    /\ i < 3 * MaxTicks
    /\ mid[1] < 0
    /\ ret' = landscape_colour(args[1],
                 landscape_ab(150000 + Mul(50000, Sin(Mul(mid[3], 200000))),
                              Mul(mid[3], args[4]) + args[3]))
    /\ mid' = IF mid[2] - 1 <= 0 THEN << 0, 0, mid[3] + 50000 >>
              ELSE << -1, mid[2] - 1, mid[3] + 50000 >>
    /\ i' = i + 1
    /\ UNCHANGED <<fn, args, status, emitted>>

\* oklab_landscapes.py 233-235: the joystick is pushed left and run returns
LandscapeExit ==
    /\ fn = "oklab_landscapes.run"
    /\ status = "loop"
    /\ i > 0
    /\ status' = "returned"
    /\ UNCHANGED <<fn, args, mid, ret, i, emitted>>

NextSink ==
    \/ YuvBase \/ LumaFadeIn \/ LumaTurn \/ LumaFadeOut \/ LumaReturn
    \/ DesatOut \/ DesatTurn \/ DesatIn \/ DesatReturn
    \/ LandscapeSetup \/ LandscapeOnTerrain \/ LandscapeInValley \/ LandscapeExit

SpecSink == InitSink /\ [][NextSink]_vars

\* ------------------------------------------ circadian.py: interpolate_color

\* color_list: the three palettes, a list of one colour and a list of two
ColorLists ==
    { COLORS_NIGHT, COLORS_TWILIGHT, COLORS_DAY, << <<255, 150, 50>> >>,
      << <<0, 0, 0>>, <<255, 255, 255>> >> }

\* progress from -1 to 2 in steps of 1/MaxHue
Progresses == { (k * U) \div MaxHue : k \in (-MaxHue)..(2 * MaxHue) }

InitInterp ==
    /\ fn = "circadian.interpolate_color"
    /\ args \in ColorLists \X Progresses
    /\ status = "called"
    /\ mid = <<>>
    /\ ret = <<>>
    /\ i = 0
    /\ emitted = <<>>

\* interpolate_color(color_list, progress)
CallInterpolateColor ==
    /\ fn = "circadian.interpolate_color"
    /\ status = "called"
    /\ ret' = interpolate_color(args[1], args[2])
    /\ status' = IF Len(ret') = 3 THEN "returned" ELSE "raised"
    /\ UNCHANGED <<fn, args, mid, i, emitted>>

NextInterp == CallInterpolateColor

SpecInterp == InitInterp /\ [][NextInterp]_vars

\* --------------------------------------------------- clock_app2.py: is_dst

\* every date and hour of 2000-2099
DstArgs ==
    { <<y, m, d, h>> \in (2000..2099) \X (1..12) \X (1..31) \X (0..23) :
          d <= DaysInMonth(y, m) }

InitDst ==
    /\ fn = "clock_app2.is_dst"
    /\ args \in DstArgs
    /\ status = "called"
    /\ mid = <<>>
    /\ ret = <<>>
    /\ i = 0
    /\ emitted = <<>>

\* is_dst(year, month, day, hour)
CallIsDst ==
    /\ fn = "clock_app2.is_dst"
    /\ status = "called"
    /\ ret' = << is_dst(args[1], args[2], args[3], args[4]) >>
    /\ status' = "returned"
    /\ UNCHANGED <<fn, args, mid, i, emitted>>

NextDst == CallIsDst

SpecDst == InitDst /\ [][NextDst]_vars

\* ------------------------------------------------- startup.py: initialize
\* args = <<config.py exists, WIFI_SSID is set, WIFI_PASSWORD is set,
\*          the LCD answers, wlan.connect raises>>
\* mid  = <<wlan.active, link, max_wait, wlan of initialize, outcome>>

\* max_wait = 15
max_wait_start == 15

startup_args == BOOLEAN \X BOOLEAN \X BOOLEAN \X BOOLEAN \X BOOLEAN

InitStartup ==
    /\ fn = "startup.initialize"
    /\ args \in startup_args
    /\ status = "called"
    /\ mid \in {<<FALSE, link, 0, "None", "none">> : link \in {"joining", "up", "failed"}}
    /\ ret = <<>>
    /\ i = 0
    /\ emitted = <<>>

\* initialize up to the call of connect_to_wifi, with its two handlers; a call
\* of a dead LCD raises OSError, inside a handler too
InitializeStart ==
    /\ fn = "startup.initialize"
    /\ status = "called"
    /\ IF ~args[4]
       THEN /\ status' = "raised"
            /\ ret' = <<"OSError">>
            /\ emitted' = emitted
       ELSE /\ ret' = ret
            /\ IF ~args[1]
               THEN /\ status' = "finish"
                    /\ emitted' = emitted \o <<"ERROR:", "config.py missing">>
               ELSE IF args[2] /\ args[3]
               THEN /\ status' = "connect"
                    /\ emitted' = emitted \o <<"System Starting...">>
               ELSE /\ status' = "finish"
                    /\ emitted' = emitted \o <<"System Starting...", "No WiFi Config">>
    /\ UNCHANGED <<fn, args, mid, i>>

\* connect_to_wifi up to the wait loop; an exception of wlan.connect is caught
\* by the handler of initialize
ConnectToWifi ==
    /\ fn = "startup.initialize"
    /\ status = "connect"
    /\ IF mid[2] = "up"
       THEN /\ mid' = <<TRUE, "up", mid[3], "wlan", "connected">>
            /\ status' = "finish"
            /\ emitted' = emitted
       ELSE IF args[5]
       THEN /\ mid' = <<TRUE, mid[2], mid[3], "None", "error">>
            /\ status' = "finish"
            /\ emitted' = emitted \o <<"Connecting WiFi", "Startup Error">>
       ELSE /\ mid' = <<TRUE, "joining", max_wait_start, "None", "none">>
            /\ status' = "waiting"
            /\ emitted' = emitted \o <<"Connecting WiFi">>
    /\ UNCHANGED <<fn, args, ret, i>>

\* the access point answers or refuses while connect_to_wifi waits
LinkChange ==
    /\ fn = "startup.initialize"
    /\ status = "waiting"
    /\ mid[2] = "joining"
    /\ \E link \in {"up", "failed"} : mid' = <<mid[1], link, mid[3], mid[4], mid[5]>>
    /\ UNCHANGED <<fn, args, status, ret, i, emitted>>

\* one pass of the wait loop
WaitTick ==
    /\ fn = "startup.initialize"
    /\ status = "waiting"
    /\ mid[3] > 0
    /\ mid[2] = "joining"
    /\ mid' = <<mid[1], mid[2], mid[3] - 1, mid[4], mid[5]>>
    /\ emitted' = emitted \o <<".">>
    /\ UNCHANGED <<fn, args, status, ret, i>>

\* the end of the wait loop and the rest of connect_to_wifi
WaitEnd ==
    /\ fn = "startup.initialize"
    /\ status = "waiting"
    /\ mid[3] = 0 \/ mid[2] # "joining"
    /\ IF mid[2] = "up"
       THEN /\ mid' = <<mid[1], mid[2], mid[3], "wlan", "connected">>
            /\ emitted' = emitted \o <<"WiFi Connected!">>
       ELSE /\ mid' = <<FALSE, mid[2], mid[3], "None", "failed">>
            /\ emitted' = emitted \o <<"WiFi Failed!">>
    /\ status' = "finish"
    /\ UNCHANGED <<fn, args, ret, i>>

\* the idle colour and the return of initialize
InitializeReturn ==
    /\ fn = "startup.initialize"
    /\ status = "finish"
    /\ ret' = <<mid[4]>>
    /\ status' = "returned"
    /\ UNCHANGED <<fn, args, mid, i, emitted>>

NextStartup ==
    \/ InitializeStart
    \/ ConnectToWifi
    \/ LinkChange
    \/ WaitTick
    \/ WaitEnd
    \/ InitializeReturn

SpecStartup == InitStartup /\ [][NextStartup]_vars

\* ----------------------------------------- settings_app.py: save_wifi_config
\* args = <<ssid, password>>, mid = <<fault, config.py on disk, config.py before>>,
\* emitted = new_lines, i = the lines written so far

\* the longest config.py tried
MaxLines == 3

\* lines that save_wifi_config rewrites as the SSID
SsidLines ==
    { SSID_PREFIX \o <<" ", "'", "o", "l", "d", "'", "\n">>,
      SSID_PREFIX \o <<"\n">> }

\* lines that save_wifi_config rewrites as the password; the second has no
\* line end, as the last line of a file may
PasswordLines ==
    { PASSWORD_PREFIX \o <<" ", "'", "p", "w", "'", "\n">>,
      PASSWORD_PREFIX \o <<" ", "'", "p", "w", "'">> }

\* lines that save_wifi_config leaves alone
OtherLines ==
    { <<"\n">>,
      <<"L", "E", "D", " ", "=", " ", "1", "\n">>,
      <<"#", " ">> \o SSID_PREFIX \o <<" ", "'", "x", "'", "\n">>,
      <<" ">> \o PASSWORD_PREFIX \o <<" ", "'", "x", "'", "\n">>,
      <<"W", "I", "F", "I", "_", "S", "S", "I", "D", "=", "'", "x", "'", "\n">> }

ConfigLines == SsidLines \cup PasswordLines \cup OtherLines

\* what f.readlines() can return: only the last line may lack its line end
ConfigFiles ==
    { f \in UNION { [1..n -> ConfigLines] : n \in 0..MaxLines } :
          \A k \in 1..(Len(f) - 1) : f[k][Len(f[k])] = "\n" }

ConfigNames == { <<"n", "e", "t">>, <<"a", " ", "=", "b">> }

ConfigFaults == {"none", "read", "open", "write"}

InitConfig ==
    /\ fn = "settings_app.save_wifi_config"
    /\ args \in ConfigNames \X {<<"s", "3", "c">>}
    /\ status = "called"
    /\ \E fault \in ConfigFaults, f \in ConfigFiles : mid = <<fault, f, f>>
    /\ ret = <<>>
    /\ i = 0
    /\ emitted = <<>>

\* lines 21-35: read config.py and build new_lines
SaveRead ==
    /\ fn = "settings_app.save_wifi_config"
    /\ status = "called"
    /\ IF mid[1] = "read"
       THEN /\ ret' = <<FALSE>>
            /\ status' = "returned"
            /\ emitted' = emitted
       ELSE /\ ret' = ret
            /\ status' = "opening"
            /\ emitted' = config_new_lines(mid[2], args[1], args[2])
    /\ UNCHANGED <<fn, args, mid, i>>

\* line 38: open("config.py", "w") empties the file, or raises OSError
SaveOpen ==
    /\ fn = "settings_app.save_wifi_config"
    /\ status = "opening"
    /\ IF mid[1] = "open"
       THEN /\ ret' = <<FALSE>>
            /\ status' = "returned"
            /\ mid' = mid
       ELSE /\ ret' = ret
            /\ status' = "writing"
            /\ mid' = <<mid[1], <<>>, mid[3]>>
    /\ UNCHANGED <<fn, args, i, emitted>>

\* line 40: f.write(line)
SaveWrite ==
    /\ fn = "settings_app.save_wifi_config"
    /\ status = "writing"
    /\ i < Len(emitted)
    /\ mid' = <<mid[1], Append(mid[2], emitted[i + 1]), mid[3]>>
    /\ i' = i + 1
    /\ UNCHANGED <<fn, args, status, ret, emitted>>

\* lines 40, 42-43: a write, or the close of the file, raises OSError
SaveWriteFails ==
    /\ fn = "settings_app.save_wifi_config"
    /\ status = "writing"
    /\ mid[1] = "write"
    /\ ret' = <<FALSE>>
    /\ status' = "returned"
    /\ UNCHANGED <<fn, args, mid, i, emitted>>

\* line 41: the file is closed and True returned
SaveDone ==
    /\ fn = "settings_app.save_wifi_config"
    /\ status = "writing"
    /\ i = Len(emitted)
    /\ ret' = <<TRUE>>
    /\ status' = "returned"
    /\ UNCHANGED <<fn, args, mid, i, emitted>>

NextConfig ==
    \/ SaveRead
    \/ SaveOpen
    \/ SaveWrite
    \/ SaveWriteFails
    \/ SaveDone

SpecConfig == InitConfig /\ [][NextConfig]_vars

\* ---------------------------------------------- clock_app2.py: run_clock_app
\* mid = <<utime.time(), last_sync_time, seconds since run_clock_app began>>
\* emitted = one record for each call of set_rtc_from_ntp: when it was made,
\* last_sync_time on entry, whether get_ntp_time answered, what the LCD showed
\* i = the passes of the loop so far

\* the passes of the loop of run_clock_app that are followed
MaxPasses == 4

RESYNC_INTERVAL_SECONDS == 60 * 60 * 6

\* utime.time() when run_clock_app begins: an RTC that starts at its epoch, or
\* at 1 January 2021 as on the Pico
BootTimes == {0, 1609459200}

\* what get_ntp_time returns: 0 stands for None, and is as falsy
NtpReplies(now) == {0, now, now + 30}

\* the seconds one pass of the loop can take, the wait for the reply included
PassSeconds == {0, 1, RESYNC_INTERVAL_SECONDS - 1, RESYNC_INTERVAL_SECONDS}

\* lines 44-46 and 57-60 of set_rtc_from_ntp: what the LCD shows
sync_shown(entry_sync_time, ntp_timestamp, new_sync_time) ==
    (IF entry_sync_time = 0 THEN <<"Syncing Time...">> ELSE <<>>)
        \o (IF ntp_timestamp # 0 /\ new_sync_time = 0 THEN <<"Time Synced!">> ELSE <<>>)

\* set_rtc_from_ntp: the record of the call; lag is the time between
\* rtc.datetime(...) and utime.time() on line 55
sync_call(now, entry_sync_time, at, ntp_timestamp, lag) ==
    [ at |-> at,
      entry |-> entry_sync_time,
      ok |-> ntp_timestamp # 0,
      time |-> IF ntp_timestamp # 0 THEN ntp_timestamp + lag ELSE now,
      shown |-> sync_shown(entry_sync_time, ntp_timestamp,
                           IF ntp_timestamp # 0 THEN ntp_timestamp + lag
                           ELSE entry_sync_time) ]

\* set_rtc_from_ntp: last_sync_time after the call
sync_last(call) == IF call.ok THEN call.time ELSE call.entry

InitClock ==
    /\ fn = "clock_app2.run_clock_app"
    /\ args = <<>>
    /\ status = "called"
    /\ mid \in {<<now, 0, 0>> : now \in BootTimes}
    /\ ret = <<>>
    /\ i = 0
    /\ emitted = <<>>

\* lines 172-180: the initial sync
ClockStart ==
    /\ fn = "clock_app2.run_clock_app"
    /\ status = "called"
    /\ \E ntp \in NtpReplies(mid[1]), lag \in {0, 1} :
          LET call == sync_call(mid[1], mid[2], mid[3], ntp, lag)
          IN  /\ emitted' = Append(emitted, call)
              /\ mid' = <<call.time, sync_last(call), mid[3]>>
    /\ status' = "looping"
    /\ UNCHANGED <<fn, args, ret, i>>

\* lines 183-210: a pass of the loop in which the interval has passed
ClockPassSync ==
    /\ fn = "clock_app2.run_clock_app"
    /\ status = "looping"
    /\ i < MaxPasses
    /\ mid[1] - mid[2] >= RESYNC_INTERVAL_SECONDS
    /\ \E ntp \in NtpReplies(mid[1]), lag \in {0, 1}, d \in PassSeconds :
          LET call == sync_call(mid[1], mid[2], mid[3], ntp, lag)
          IN  /\ emitted' = Append(emitted, call)
              /\ mid' = <<call.time + d, sync_last(call), mid[3] + d>>
    /\ i' = i + 1
    /\ UNCHANGED <<fn, args, status, ret>>

\* lines 183-210: a pass of the loop in which it has not
ClockPass ==
    /\ fn = "clock_app2.run_clock_app"
    /\ status = "looping"
    /\ i < MaxPasses
    /\ mid[1] - mid[2] < RESYNC_INTERVAL_SECONDS
    /\ \E d \in PassSeconds : mid' = <<mid[1] + d, mid[2], mid[3] + d>>
    /\ i' = i + 1
    /\ UNCHANGED <<fn, args, status, ret, emitted>>

\* lines 201-205: the joystick is pushed left
ClockExit ==
    /\ fn = "clock_app2.run_clock_app"
    /\ status = "looping"
    /\ status' = "returned"
    /\ ret' = <<"None">>
    /\ UNCHANGED <<fn, args, mid, i, emitted>>

NextClock ==
    \/ ClockStart
    \/ ClockPassSync
    \/ ClockPass
    \/ ClockExit

SpecClock == InitClock /\ [][NextClock]_vars

\* ------------------------------------------- blackbody.py: run_blackbody_loop
\* mid = <<temp, direction, the temp last passed to kelvin_to_rgb (0: none yet),
\*         direction before the last pass>>
\* emitted = the arguments of math.log in the last call of kelvin_to_rgb

InitBlackbody ==
    /\ fn = "blackbody.run_blackbody_loop"
    /\ args = <<>>
    /\ status = "looping"
    /\ mid = <<1000, 100, 0, 100>>
    /\ ret = <<>>
    /\ i = 0
    /\ emitted = <<>>

\* lines 80-86 and 94: one pass of the loop
BlackbodyPass ==
    /\ fn = "blackbody.run_blackbody_loop"
    /\ status = "looping"
    /\ emitted' = kelvin_log_args(mid[1])
    /\ mid' = << mid[1] + mid[2],
                 IF blackbody_reverses(mid[1] + mid[2]) THEN -mid[2] ELSE mid[2],
                 mid[1],
                 mid[2] >>
    /\ UNCHANGED <<fn, args, status, ret, i>>

\* lines 80-91: the pass in which the joystick is pushed
BlackbodyExit ==
    /\ fn = "blackbody.run_blackbody_loop"
    /\ status = "looping"
    /\ emitted' = kelvin_log_args(mid[1])
    /\ mid' = << mid[1] + mid[2],
                 IF blackbody_reverses(mid[1] + mid[2]) THEN -mid[2] ELSE mid[2],
                 mid[1],
                 mid[2] >>
    /\ status' = "returned"
    /\ ret' = <<"None">>
    /\ UNCHANGED <<fn, args, i>>

NextBlackbody ==
    \/ BlackbodyPass
    \/ BlackbodyExit

SpecBlackbody == InitBlackbody /\ [][NextBlackbody]_vars

\* ----------------------------------------- schrodinger.py: run_schrodinger_loop
\* mid = <<center, width, width_direction, calls of get_spectral_overlap made>>
\* emitted = the r, g, b of the last pass

InitSchrodinger ==
    /\ fn = "schrodinger.run_schrodinger_loop"
    /\ args = <<>>
    /\ status = "looping"
    /\ mid = <<0, 100, 1, FALSE>>
    /\ ret = <<>>
    /\ i = 0
    /\ emitted = <<>>

\* lines 105-123: the physics and the output of one pass
SchrodingerStep(turns) ==
    /\ mid' = << schrodinger_center(mid[1]),
                 mid[2] + mid[3],
                 IF turns THEN -mid[3] ELSE mid[3],
                 TRUE >>
    /\ emitted' = << get_spectral_overlap(75, schrodinger_center(mid[1]), mid[2] + mid[3]),
                     get_spectral_overlap(45, schrodinger_center(mid[1]), mid[2] + mid[3]),
                     get_spectral_overlap(20, schrodinger_center(mid[1]), mid[2] + mid[3]) >>

\* a pass of the loop that goes on
SchrodingerPass ==
    /\ fn = "schrodinger.run_schrodinger_loop"
    /\ status = "looping"
    /\ \E turns \in schrodinger_turns(mid[2] + mid[3]) : SchrodingerStep(turns)
    /\ UNCHANGED <<fn, args, status, ret, i>>

\* a pass of the loop in which the joystick is pushed
SchrodingerExit ==
    /\ fn = "schrodinger.run_schrodinger_loop"
    /\ status = "looping"
    /\ \E turns \in schrodinger_turns(mid[2] + mid[3]) : SchrodingerStep(turns)
    /\ status' = "returned"
    /\ ret' = <<"None">>
    /\ UNCHANGED <<fn, args, i>>

NextSchrodinger ==
    \/ SchrodingerPass
    \/ SchrodingerExit

SpecSchrodinger == InitSchrodinger /\ [][NextSchrodinger]_vars

\* ------------------------------- screensaver.py, screensaver2.py, screensaver3.py
\* mid = <<len(self.boxes) or len(self.series_list)>>, ret = what the last timer
\* callback returned

\* self.max_boxes = 200
max_boxes == 200

MAX_SERIES_ON_SCREEN == 50

InitScreensaver ==
    /\ fn \in {"screensaver.add_new_box", "screensaver2.add_new_box",
               "screensaver3.update_animation"}
    /\ args = <<>>
    /\ status = "idle"
    /\ mid = <<0>>
    /\ ret = <<>>
    /\ i = 0
    /\ emitted = <<>>

\* ScreensaverWindow.add_new_box of screensaver.py
add_new_box ==
    /\ fn = "screensaver.add_new_box"
    /\ mid' = IF mid[1] > max_boxes THEN <<0>> ELSE <<mid[1] + 1>>
    /\ ret' = <<TRUE>>
    /\ UNCHANGED <<fn, args, status, i, emitted>>

\* ScreensaverWindow.add_new_box of screensaver2.py
add_new_box2 ==
    /\ fn = "screensaver2.add_new_box"
    /\ mid' = IF mid[1] > max_boxes THEN <<0>> ELSE <<mid[1] + 5>>
    /\ ret' = <<TRUE>>
    /\ UNCHANGED <<fn, args, status, i, emitted>>

\* ScreensaverWindow.update_animation of screensaver3.py
update_animation ==
    /\ fn = "screensaver3.update_animation"
    /\ mid' = IF mid[1] > MAX_SERIES_ON_SCREEN THEN <<0>> ELSE <<mid[1] + 1>>
    /\ ret' = <<TRUE>>
    /\ UNCHANGED <<fn, args, status, i, emitted>>

NextScreensaver ==
    \/ add_new_box
    \/ add_new_box2
    \/ update_animation

SpecScreensaver == InitScreensaver /\ [][NextScreensaver]_vars

\* ------------------------------------------- pico_circadian_light.py: main
\* mid = <<hour, minute, second>> of time.localtime() at the next pass
\* emitted = <<the colour set, the index of start_color, the index of end_color,
\*             the hour, minute and second it was computed for>>

InitCircadianLight ==
    /\ fn = "pico_circadian_light.main"
    /\ args = <<>>
    /\ status = "looping"
    /\ mid \in (0..23) \X (0..59) \X (0..59)
    /\ ret = <<>>
    /\ i = 0
    /\ emitted = <<>>

\* the clock one second on
pcl_next_second(hour, minute, second) ==
    IF second < 59 THEN <<hour, minute, second + 1>>
    ELSE IF minute < 59 THEN <<hour, minute + 1, 0>>
    ELSE <<(hour + 1) % 24, 0, 0>>

\* lines 61-89: one pass of the loop of main
CircadianLightPass ==
    /\ fn = "pico_circadian_light.main"
    /\ status = "looping"
    /\ \E colour \in pcl_colours(py_index(hourly_colors, pcl_start_index(mid[1])),
                                 py_index(hourly_colors, mid[1]),
                                 mid[2] * 60 + mid[3]) :
          emitted' = <<colour, pcl_start_index(mid[1]), mid[1], mid[1], mid[2], mid[3]>>
    /\ mid' = pcl_next_second(mid[1], mid[2], mid[3])
    /\ UNCHANGED <<fn, args, status, ret, i>>

NextCircadianLight == CircadianLightPass

SpecCircadianLight == InitCircadianLight /\ [][NextCircadianLight]_vars

\* ------------------------------- picorgbFade.py, picoRGBled.py: fade_color
\* args = <<start_color, end_color, steps>>, emitted = the colours set so far,
\* i = the i of the loop

\* the three calls of the main loop, with the default steps = 100
FadeColorMainCalls ==
    { << <<255, 0, 0>>, <<0, 255, 0>>, 100 >>,
      << <<0, 255, 0>>, <<0, 0, 255>>, 100 >>,
      << <<0, 0, 255>>, <<255, 0, 0>>, 100 >> }

InitFadeColor ==
    /\ fn \in {"picorgbFade.fade_color", "picoRGBled.fade_color"}
    /\ args \in FadeColorMainCalls \cup (CornerRgb \X CornerRgb \X (0..MaxSteps))
    /\ status = "called"
    /\ mid = <<>>
    /\ ret = <<>>
    /\ i = 0
    /\ emitted = <<>>

\* picorgbFade.py 29-34, picoRGBled.py 11-16: one pass of the loop over
\* range(steps); the two files hold the same function
FadeColorEmit ==
    /\ fn \in {"picorgbFade.fade_color", "picoRGBled.fade_color"}
    /\ status = "called"
    /\ i < args[3]
    /\ emitted' = Append(emitted,
                     [k \in 1..3 |-> fade_color_channel(args[1][k], args[2][k], i, args[3])])
    /\ i' = i + 1
    /\ UNCHANGED <<fn, args, status, mid, ret>>

\* range(steps) is exhausted and fade_color returns
FadeColorReturn ==
    /\ fn \in {"picorgbFade.fade_color", "picoRGBled.fade_color"}
    /\ status = "called"
    /\ i >= args[3]
    /\ status' = "returned"
    /\ ret' = <<"None">>
    /\ UNCHANGED <<fn, args, mid, i, emitted>>

NextFadeColor ==
    \/ FadeColorEmit
    \/ FadeColorReturn

SpecFadeColor == InitFadeColor /\ [][NextFadeColor]_vars

\* -------------------------------------------- oklch_spiral.py: main_loop
\* mid = <<hue>>, emitted = <<the chroma and the hue passed to oklch_to_rgb in
\* the last pass, the colour it returned>>

InitSpiral ==
    /\ fn = "oklch_spiral.main_loop"
    /\ args = <<>>
    /\ status = "looping"
    /\ mid = <<0>>
    /\ ret = <<>>
    /\ i = 0
    /\ emitted = <<>>

\* lines 121-129 of main_loop for the chroma of lines 117-118
SpiralStepWith(chroma) ==
    /\ emitted' = <<chroma, mid[1], oklch_to_rgb(LIGHTNESS, chroma, mid[1])>>
    /\ mid' = <<spiral_wrap(mid[1] + HUE_SPEED)>>

\* lines 114-131: one pass of the loop of main_loop
SpiralStep ==
    /\ fn = "oklch_spiral.main_loop"
    /\ status = "looping"
    /\ \E chroma \in {spiral_chroma(mid[1])} : SpiralStepWith(chroma)
    /\ UNCHANGED <<fn, args, status, ret, i>>

NextSpiral == SpiralStep

SpecSpiral == InitSpiral /\ [][NextSpiral]_vars

\* ------------------------------------------ picoServer1.py: the request loop
\* args = <<the request line split at ' ', the files that can be read>>
\* mid = <<path>>, emitted = what was sent on the connection

\* request_line.split(' ') of the requests tried; the last is an empty request
ServerRequests ==
    { <<"GET", p, "HTTP/1.1">> :
          p \in {"/", "/index.html", "/style.css", "/script.js", "/favicon.ico",
                 "/index.htm", "/style.css/"} }
        \cup { <<"">> }

InitServer ==
    /\ fn = "picoServer1.loop"
    /\ args = <<>>
    /\ status = "listening"
    /\ mid = <<>>
    /\ ret = <<>>
    /\ i = 0
    /\ emitted = <<>>

\* lines 14-19: a request arrives and its path is taken; a request line without
\* a space has no element 1 and the IndexError ends the loop
ServerAccept ==
    /\ fn = "picoServer1.loop"
    /\ status = "listening"
    /\ \E request \in ServerRequests,
          readable \in SUBSET {"index.html", "style.css", "script.js"} :
          /\ args' = <<request, readable>>
          /\ IF Len(request) < 2
             THEN status' = "raised" /\ ret' = <<"IndexError">> /\ mid' = <<>>
             ELSE status' = "parsed" /\ ret' = ret /\ mid' = <<request[2]>>
    /\ emitted' = <<>>
    /\ UNCHANGED <<fn, i>>

\* lines 21-49: the answer
ServerRespond ==
    /\ fn = "picoServer1.loop"
    /\ status = "parsed"
    /\ emitted' = server_sends(mid[1], args[2])
    /\ status' = "closing"
    /\ UNCHANGED <<fn, args, mid, ret, i>>

\* lines 50-51: the connection is closed and the loop goes on
ServerClose ==
    /\ fn = "picoServer1.loop"
    /\ status = "closing"
    /\ status' = "listening"
    /\ UNCHANGED <<fn, args, mid, ret, i, emitted>>

NextServer ==
    \/ ServerAccept
    \/ ServerRespond
    \/ ServerClose

SpecServer == InitServer /\ [][NextServer]_vars

\* ------------------------------------------------------------- the claims

\* C1: for every 8-bit triple, oklab_to_rgb(*rgb_to_oklab(r,g,b)) is within
\* +-1 of (r,g,b) in each channel.
C1_RoundTripWithinOne ==
    (fn = "oklab2.rgb_to_oklab" /\ status = "returned") =>
        \A k \in 1..3 : Abs(ret[k] - args[k]) <= 1

\* C2: whatever the input, in gamut or not, oklab_to_rgb (oklab.py), xyz_to_rgb
\* (picoCIELAB.py) and oklch_to_rgb (oklch_spiral.py) return three integers in
\* 0..255.
C2_RgbInRange ==
    (fn \in {"oklab.oklab_to_rgb", "picoCIELAB.xyz_to_rgb", "oklch_spiral.oklch_to_rgb"}
        /\ status = "returned") =>
        (Len(ret) = 3 /\ \A k \in 1..3 : ret[k] \in 0..255)

\* C2 witness: a converter returned for an input whose linear RGB has a negative
\* channel and a channel above 1; the first came out as 0 and the second as 255.
C2_Witness ==
    /\ fn = "picoCIELAB.xyz_to_rgb"
    /\ status = "returned"
    /\ \E j, k \in 1..3 : mid[j] < 0 /\ ret[j] = 0 /\ mid[k] > U /\ ret[k] = 255

\* C3: create_smooth_gradient with n_steps >= 1 emits n_steps + 1 colours, the
\* first equal to start_rgb and the last equal to end_rgb.
C3_GradientEnds ==
    (fn = "picoCIELAB.create_smooth_gradient" /\ status = "returned" /\ args[3] >= 1) =>
        /\ Len(emitted) = args[3] + 1
        /\ emitted[1] = args[1]
        /\ emitted[Len(emitted)] = args[2]

\* C4: called with a step count of 0, a gradient routine never raises, and when it
\* is over it has returned after emitting one colour, the start colour (compared
\* for create_smooth_gradient, whose start and emitted colours are both 8-bit RGB).
C4_ZeroStepsSingleColour ==
    (fn \in {"picoCIELAB.create_smooth_gradient", "oklab.show_random_oklab_gradient",
             "pi5pwm.fade_to_color"} /\ args[3] = 0) =>
        /\ status # "raised"
        /\ status = "returned" =>
              /\ Len(emitted) = 1
              /\ fn = "picoCIELAB.create_smooth_gradient" => emitted[1] = args[1]

\* C5: is_in_amber_zone(255, 191, 0) is True, so that test_amber_detection prints
\* SUCCESS, and is_in_amber_zone(0, 255, 0) is False.
C5_AmberDetected ==
    /\ (fn = "picoAmber1.is_in_amber_zone" /\ status = "returned" /\ args = <<255, 191, 0>>)
            => ret = <<TRUE>>
    /\ (fn = "picoAmber1.is_in_amber_zone" /\ status = "returned" /\ args = <<0, 255, 0>>)
            => ret = <<FALSE>>
    /\ (fn = "picoAmber1.test_amber_detection" /\ status # "called")
            => (status = "returned" /\ ret = <<"SUCCESS">>)

\* C6: in every hsv_to_rgb variant the hue wraps at the full circle:
\* hsv_to_rgb(1.0, s, v) returns the triple hsv_to_rgb(0.0, s, v) returns.
C6_HueWraps ==
    (status = "returned" /\ args[1] = U) =>
        /\ fn = "harmonic_led.hsv_to_rgb" => ret = harmonic_hsv_to_rgb(0, args[2], args[3])
        /\ fn = "picoColorModels.hsv_to_rgb" => ret = pcm_hsv_to_rgb(0, args[2], args[3])
        /\ fn = "picoAmber1.hsv_to_rgb" => ret = amber_hsv_to_rgb(0, args[2], args[3])

\* C7: cielab_to_rgb maps L = 0, a = 0, b = 0 to XYZ (0,0,0) and to RGB (0,0,0),
\* and at or below 6/29 its f_inv is the linear inverse 3*(6/29)^2*(t - 4/29),
\* seen on Y, whose white is 1.0.
C7_LabBlackIsBlack ==
    (fn = "picoColorModels2.cielab_to_rgb" /\ status = "returned") =>
        /\ args = <<0, 0, 0>> => (mid = <<0, 0, 0>> /\ ret = <<0, 0, 0>>)
        /\ DivN(args[1] + 16 * U, 116) <= 206897 =>
              Abs(mid[2] - Mul(128419, DivN(args[1] + 16 * U, 116) - 137931)) <= 2

\* C8: in picoCIELAB.py, for every XYZ with non-negative components, f_inv cubes
\* f(t) exactly when f took the cube root of t (t > 0.008856), and
\* lab_to_xyz(*xyz_to_lab(x,y,z)) gives back x, y, z to within 0.0002 on their scale
\* of 0..100 (the six-decimal arithmetic is exact to about 0.0001 there).
C8_ThresholdsMatch ==
    (fn = "picoCIELAB.xyz_to_lab" /\ status = "returned") =>
        \A k \in 1..3 :
            /\ cielab_f_inv_cubes(lab_fxyz(DivN(mid[1] + 16 * U, 116), mid[2], mid[3])[k])
                   <=> (xyz_over_white(args[1], args[2], args[3])[k] > 8856)
            /\ Abs(ret[k] - args[k]) <= 200

\* C8 witness: a round trip has returned for an x just above the threshold
\* (cube-root branch), a y on the threshold and a z below it (linear branch).
C8_Witness ==
    /\ fn = "picoCIELAB.xyz_to_lab"
    /\ status = "returned"
    /\ xyz_over_white(args[1], args[2], args[3]) = <<8857, 8856, 8855>>

\* C9: with saturation 0 every hsv_to_rgb / hsl_to_rgb variant returns
\* r = g = b = int(v*255) (int(l*255) for HSL), whatever the hue.
C9_ZeroSaturationGrey ==
    (fn \in { "harmonic_led.hsv_to_rgb", "picoColorModels.hsv_to_rgb",
              "picoColorModels.hsl_to_rgb", "picoAmber1.hsv_to_rgb" }
        /\ status = "returned" /\ args[2] = 0) =>
        ret = << IntTimes(args[3], 255) * U, IntTimes(args[3], 255) * U,
                 IntTimes(args[3], 255) * U >>

\* C10: rgb_to_xy never raises; X + Y + Z is zero exactly for black, where it
\* returns (0, 0); for every other colour both coordinates are X/sum and Y/sum
\* and lie strictly between 0 and 1.
C10_RgbToXyTotal ==
    (fn = "picoAmber1.rgb_to_xy" /\ status # "called") =>
        /\ status = "returned"
        /\ (mid[1] + mid[2] + mid[3] = 0) <=> (args = <<0, 0, 0>>)
        /\ args = <<0, 0, 0>> => ret = <<0, 0>>
        /\ args # <<0, 0, 0>> =>
              /\ ret = << Div(mid[1], mid[1] + mid[2] + mid[3]),
                          Div(mid[2], mid[1] + mid[2] + mid[3]) >>
              /\ \A k \in 1..2 : 0 < ret[k] /\ ret[k] < U

\* C10 witness: rgb_to_xy was called with black, found X + Y + Z = 0 and
\* returned (0, 0).
C10_Witness ==
    /\ fn = "picoAmber1.rgb_to_xy"
    /\ status = "returned"
    /\ args = <<0, 0, 0>>
    /\ mid = <<0, 0, 0>>
    /\ ret = <<0, 0>>

\* C11: every triple a conversion hands to the LED sink is within 0..255 per
\* channel: what yuv_to_rgb returns in the YUV effect loops, and what xyz_to_rgb
\* of oklab_landscapes.py returns in the landscape loop.
C11_SinkInRange ==
    (fn \in {"YUV.luma_fade_effect", "YUV.chrominance_desaturation_effect",
             "oklab_landscapes.run"} /\ ret # <<>>) =>
        \A k \in 1..3 : ret[k] \in 0..255

\* C12: interpolate_color never indexes outside the list; it returns
\* color_list[0] when progress <= 0 and color_list[-1] when progress >= 1, and
\* otherwise channels that lie between those of the two neighbouring entries.
C12_InterpolateClamps ==
    (fn = "circadian.interpolate_color" /\ status # "called") =>
        LET color_list == args[1]
            progress == args[2]
            max_idx == Len(color_list) - 1
            j == (progress * max_idx) \div U + 1
        IN  /\ status = "returned"
            /\ progress <= 0 => ret = color_list[1]
            /\ progress >= U => ret = color_list[Len(color_list)]
            /\ max_idx = 0 => ret = color_list[1]
            /\ (0 < progress /\ progress < U /\ max_idx > 0) =>
                  \A k \in 1..3 :
                      /\ ret[k] >= Min(color_list[j][k], color_list[j + 1][k])
                      /\ ret[k] <= Max(color_list[j][k], color_list[j + 1][k])

\* C12 witness: interpolate_color was called on a four-colour palette with a
\* negative progress and returned its first colour.
C12_Witness ==
    /\ fn = "circadian.interpolate_color"
    /\ status = "returned"
    /\ args[2] < 0
    /\ Len(args[1]) = 4
    /\ ret = args[1][1]

\* C13: for every date and hour of 2000-2099, is_dst is True exactly from 02:00
\* on the second Sunday of March (the Sunday among 8..14 March) until before
\* 02:00 on the first Sunday of November (the Sunday among 1..7 November).
C13_DstWindow ==
    (fn = "clock_app2.is_dst" /\ status = "returned") =>
        LET year == args[1]
            month == args[2]
            day == args[3]
            hour == args[4]
            start == CHOOSE d \in 8..14 : localtime_weekday(year, 3, d) = 6
            end == CHOOSE d \in 1..7 : localtime_weekday(year, 11, d) = 6
            started == month > 3 \/ (month = 3 /\ (day > start \/ (day = start /\ hour >= 2)))
            ended == month > 11 \/ (month = 11 /\ (day > end \/ (day = end /\ hour >= 2)))
        IN  ret = << started /\ ~ended >>

\* C13 witness: is_dst answered True at 02:00 of a second Sunday of March that
\* is not the 14th.
C13_Witness ==
    /\ fn = "clock_app2.is_dst"
    /\ status = "returned"
    /\ args[2] = 3
    /\ args[3] \in 8..13
    /\ localtime_weekday(args[1], 3, args[3]) = 6
    /\ args[4] = 2
    /\ ret = <<TRUE>>

\* C14: initialize always returns; it returns the wlan object exactly when the
\* connection succeeded and None otherwise, and after a failed connect the
\* interface is inactive.
C14_InitializeReturns ==
    fn = "startup.initialize" =>
        /\ status # "raised"
        /\ status = "returned" =>
              /\ ret \in {<<"wlan">>, <<"None">>}
              /\ ret = <<"wlan">> <=> mid[5] = "connected"
              /\ mid[5] = "failed" => ~mid[1]

\* C15: when save_wifi_config returns True, every line of new_lines was
\* written, config.py holds as many lines as before, its WIFI_SSID and
\* WIFI_PASSWORD lines carry the new values and every other line is the old one
\* at the old place; when the file could not be read it returns False and the
\* file is as it was.
C15_OnlyWifiLinesRewritten ==
    (fn = "settings_app.save_wifi_config" /\ status = "returned") =>
        /\ ret = <<TRUE>> =>
              /\ i = Len(emitted)
              /\ mid[2] = emitted
              /\ Len(mid[2]) = Len(mid[3])
              /\ \A k \in 1..Len(mid[3]) :
                    /\ mid[3][k] \in SsidLines => mid[2][k] = ssid_line(args[1])
                    /\ mid[3][k] \in PasswordLines => mid[2][k] = password_line(args[2])
                    /\ mid[3][k] \in OtherLines => mid[2][k] = mid[3][k]
        /\ mid[1] = "read" => (ret = <<FALSE>> /\ mid[2] = mid[3] /\ i = 0)

\* C15 witness: True was returned for a file of three lines, among them a
\* WIFI_SSID line, now rewritten, and the comment that names WIFI_SSID.
C15_Witness ==
    /\ fn = "settings_app.save_wifi_config"
    /\ status = "returned"
    /\ ret = <<TRUE>>
    /\ Len(mid[3]) = 3
    /\ mid[3][1] \in SsidLines
    /\ mid[2][1] = ssid_line(args[1])
    /\ mid[3][2] = <<"#", " ">> \o SSID_PREFIX \o <<" ", "'", "x", "'", "\n">>
    /\ mid[2][2] = mid[3][2]
    /\ mid[3][3] \in PasswordLines

\* C16: in run_clock_app two consecutive calls of set_rtc_from_ntp made by the
\* loop are at least RESYNC_INTERVAL_SECONDS apart, whether the earlier one
\* synchronised or not.
C16_ResyncInterval ==
    fn = "clock_app2.run_clock_app" =>
        \A k \in 2..(Len(emitted) - 1) :
            emitted[k + 1].at - emitted[k].at >= RESYNC_INTERVAL_SECONDS

\* C17: a call of set_rtc_from_ntp that enters with last_sync_time = 0 and
\* synchronises shows 'Time Synced!'; a call after a synchronisation shows
\* nothing.
C17_FirstLoadFeedback ==
    fn = "clock_app2.run_clock_app" =>
        \A k \in 1..Len(emitted) :
            /\ (emitted[k].entry = 0 /\ emitted[k].ok) =>
                  emitted[k].shown = <<"Syncing Time...", "Time Synced!">>
            /\ (\E j \in 1..(k - 1) : emitted[j].ok) => emitted[k].shown = <<>>

\* C18: every temperature run_blackbody_loop passes to kelvin_to_rgb lies in
\* 1000..12000, the direction changes in a pass exactly when the new temperature
\* is 1000 or 12000, and every argument of math.log is positive.
C18_TemperatureInRange ==
    fn = "blackbody.run_blackbody_loop" =>
        /\ status = "looping" => mid[1] \in 1000..12000
        /\ mid[3] # 0 =>
              /\ mid[3] \in 1000..12000
              /\ (mid[2] # mid[4]) <=> (mid[1] \in {1000, 12000})
              /\ \A k \in 1..Len(emitted) : emitted[k] > 0

\* C18 witness: 12000 K was passed to kelvin_to_rgb on the way down, after the
\* direction had turned at the top.
C18_Witness ==
    /\ fn = "blackbody.run_blackbody_loop"
    /\ mid = <<11900, -100, 12000, -100>>
    /\ emitted = <<>>

\* C19: in every pass of run_schrodinger_loop the width passed to
\* get_spectral_overlap lies in [5, 50] and the centre in [0, 100].
C19_WindowInRange ==
    (fn = "schrodinger.run_schrodinger_loop" /\ mid[4]) =>
        /\ mid[2] >= 50
        /\ mid[2] <= 500
        /\ mid[1] >= 0
        /\ mid[1] <= 1000

\* C20: after any number of timer callbacks the screensavers of screensaver.py
\* and screensaver2.py hold at most max_boxes boxes, the one of screensaver3.py
\* at most MAX_SERIES_ON_SCREEN series, and every callback returned True.
C20_LimitEnforced ==
    /\ fn \in {"screensaver.add_new_box", "screensaver2.add_new_box"} =>
          mid[1] <= max_boxes
    /\ fn = "screensaver3.update_animation" => mid[1] <= MAX_SERIES_ON_SCREEN
    /\ (fn \in {"screensaver.add_new_box", "screensaver2.add_new_box",
                "screensaver3.update_animation"} /\ ret # <<>>) => ret = <<TRUE>>

\* C21: the colour main shows at hour h lies channel by channel between
\* hourly_colors[(h-1) mod 24] and hourly_colors[h], both list indexes used are
\* in 0..23, and at h:00:00 the colour is hourly_colors[(h-1) mod 24].
C21_BetweenHourlyColours ==
    (fn = "pico_circadian_light.main" /\ emitted # <<>>) =>
        LET colour == emitted[1]
            from == hourly_colors[((emitted[4] + 23) % 24) + 1]
            to == hourly_colors[emitted[4] + 1]
        IN  /\ emitted[2] \in 0..23
            /\ emitted[3] \in 0..23
            /\ \A c \in 1..3 :
                  /\ colour[c] >= Min(from[c], to[c])
                  /\ colour[c] <= Max(from[c], to[c])
            /\ (emitted[5] = 0 /\ emitted[6] = 0) => colour = from

\* C21 witness: at 00:00:00 main showed hourly_colors[23], and the next pass is
\* for 00:00:01.
C21_Witness ==
    /\ fn = "pico_circadian_light.main"
    /\ emitted = <<<<5, 0, 50>>, 23, 0, 0, 0, 0>>
    /\ mid = <<0, 0, 1>>

\* C22: when fade_color returns, the first colour it set is start_color and the
\* last colour it set is end_color.
C22_FadeColorEnds ==
    (fn \in {"picorgbFade.fade_color", "picoRGBled.fade_color"} /\ status = "returned") =>
        /\ Len(emitted) >= 1
        /\ emitted[1] = args[1]
        /\ emitted[Len(emitted)] = args[2]

C24_NotFoundAndServerError ==
    (fn = "picoServer1.loop" /\ status = "closing") =>
        /\ mid[1] \notin {"/", "/index.html", "/style.css", "/script.js"} =>
              /\ emitted[1] = "HTTP/1.1 404 Not Found\r\n"
              /\ emitted[Len(emitted)] = "<h1>404 Not Found</h1>"
        /\ (/\ mid[1] \in {"/", "/index.html", "/style.css", "/script.js"}
            /\ server_file(mid[1]) \notin args[2]) =>
              emitted[1] = "HTTP/1.1 500 Internal Server Error\r\n\r\n"

====
